---------------------------- MODULE Spec2Model ----------------------------
(***************************************************************************)
(* Model of the virtual economy and transfer engine of the SENPAI bot      *)
(* (src/shivu/modules: shop.py, redeem.py, gift.py, give.py, sclaim.py,    *)
(* setrarity.py, upload.py).                                               *)
(*                                                                         *)
(* Handlers are registered with block=False, so every update runs as its   *)
(* own asyncio task.  A task runs without interruption between two awaits  *)
(* that really suspend (a database call, a Telegram call); at each of      *)
(* those other tasks may run.  Each handler is therefore cut into one      *)
(* action per database call: the action applies the call to the store and  *)
(* runs the handler's code up to the next call.  Where the code after a    *)
(* call touches process-local shared memory (shop_cache, redeem_codes,     *)
(* user_redeem_history, gift_cooldowns, claim_cooldowns, daily_claims) the *)
(* application of the call and the resumption of the task are two actions. *)
(*                                                                         *)
(* A task slot runs one update: "idle" -> ... -> "done".  Slots of buy_cmd, *)
(* give_cmd, gift_cmd, gift_callback, giftall_cmd, uploadurl_cmd,          *)
(* deletechar_cmd, shop_refresh_callback and sclaim_cmd run once; a        *)
(* redeem_cmd slot is taken again by a later update once it is done.       *)
(*                                                                         *)
(* Time is the pair (now, frac): whole seconds and parts of a second.  The *)
(* gift cooldown, which the code truncates with int(), is kept in parts of *)
(* a second; every other deadline is compared in whole seconds.            *)
(***************************************************************************)
EXTENDS Integers, Sequences, FiniteSets, TLC

\* ---------------------------------------------------------------- bounds
NUsers == 3
NBuyers == 2
NGifters == 2
NRedeemers == 2
NChars == 2
NBuyTasks == 2
NRedeemTasks == 2
NGiveTasks == 2
NProposeTasks == 2
NConfirmTasks == 2
NCancelTasks == 1
NSclaimTasks == 2
NGiftallTasks == 1
NUploadTasks == 1
NDeleteTasks == 1
NRefreshTasks == 1
\* size of a catalog that holds more than MAX_SHOP_ITEMS characters
NListed == 12
MaxItemNum == 2
MaxBalance == 1000
MaxTicks == 2
MaxCodes == 2
\* resolution of the clock where a float is truncated: parts of a second
SubSeconds == 2

\* ------------------------------------------------------ program constants
SHOP_REFRESH_INTERVAL == 3600
MAX_SHOP_ITEMS == 10
BASE_MULTIPLIER == 1000
VARIANCE == 200
MIN_PRICE == 100
MAX_RARITY == 15
REDEEM_COOLDOWN_SECONDS == 60
GIFT_COOLDOWN_SECONDS == 300
CLAIM_COOLDOWN_HOURS == 24
SECONDS_PER_HOUR == 3600
MIN_CLAIM_RARITY == 3
SECONDS_PER_DAY == 86400
OWNER_ID == 1

\* ------------------------------------------------------------ input sets
Users == 1..NUsers
\* the users who buy; the users who give and receive gifts
Buyers == 1..NBuyers
Gifters == 1..NGifters
\* the users who redeem at the same time
Redeemers == 1..NRedeemers
\* the character ids that are granted, locked and gifted
GiftChars == {1}
CharIds == 1..NChars
Chats == {100}
CodeNames == {"K1"}
\* the strings generate_code may draw when a code is created
DrawnCodes == {"K1", "K2"}
BuyTasks == 1..NBuyTasks
RedeemTasks == 1..NRedeemTasks
GiveTasks == 1..NGiveTasks
ProposeTasks == 1..NProposeTasks
ConfirmTasks == 1..NConfirmTasks
CancelTasks == 1..NCancelTasks
SclaimTasks == 1..NSclaimTasks
GiftallTasks == 1..NGiftallTasks
UploadTasks == 1..NUploadTasks
DeleteTasks == 1..NDeleteTasks
RefreshTasks == 1..NRefreshTasks
ItemNums == 1..MaxItemNum
\* the <item_number> argument of /buy: 0 is below every listing
ItemArgs == 0..MaxItemNum
\* random.randint(-200, 200): the two ends of the range
Variations == {0 - VARIANCE, VARIANCE}
\* amounts an admin passes to /givecoins and /createcode
CoinAmounts == {1000}
\* [uses] argument of /createcode; 0 is "no limit" (max_uses = None)
MaxUsesArgs == {0, 1, 2}
\* [days_valid] argument of /createcode; 0 is "forever" (expires = None)
DaysArgs == {0, 1}
\* <name> and <rarity> arguments of /uploadurl
UploadNames == {9}
UploadRarities == {4}

VARIABLES
    now,                 \* time.time() / datetime.now(), in seconds
    ticks,               \* number of clock advances so far
    registered,          \* ids with a document in user_collection
    balance,             \* user_collection: id -> 'balance' (0 when absent)
    characters,          \* user_collection: id -> 'characters' ([] when absent)
    catalog,             \* collection: character id -> document
    locked,              \* locked_characters_collection: set of character ids
    shop_cache,          \* shop.py shop_cache: chat id -> {'items', 'timestamp'}
    shop_gen,            \* history: chat id -> number of listings generated so far
    redeem_codes,        \* redeem.py redeem_codes: code -> data
    code_seq,            \* history: number of code objects created so far
    user_redeem_history, \* redeem.py user_redeem_history: user id -> list of times
    buy,                 \* buy_cmd tasks
    rdm,                 \* redeem_cmd tasks
    gift_cooldowns,      \* gift.py gift_cooldowns: user id -> time of the next
                         \* gift, in parts of a second
    giv,                 \* give_cmd tasks
    prop,                \* gift_cmd tasks (propose)
    cfm,                 \* gift_callback tasks on a gift_confirm button
    cnl,                 \* gift_callback tasks on a gift_cancel button
    claim_cooldowns,     \* sclaim.py claim_cooldowns: user id -> time of the last claim
    daily_claims,        \* sclaim.py daily_claims: day -> {'count', 'users'}
    scl,                 \* sclaim_cmd tasks
    gfa,                 \* giftall_cmd tasks
    upl,                 \* uploadurl_cmd tasks
    dlc,                 \* deletechar_cmd tasks
    rfr,                 \* shop_refresh_callback tasks
    frac                 \* the clock's fraction of a second, in parts of a second

acctVars == <<registered, balance, characters>>
clockVars == <<now, ticks, frac>>
catVars == <<catalog, locked>>
shopVars == <<shop_cache, shop_gen>>
codeVars == <<redeem_codes, code_seq, user_redeem_history>>
vars == <<now, ticks, registered, balance, characters, catalog, locked,
          shop_cache, shop_gen, redeem_codes, code_seq, user_redeem_history,
          buy, rdm, gift_cooldowns, giv, prop, cfm, cnl, claim_cooldowns,
          daily_claims, scl, gfa, upl, dlc, rfr, frac>>
adminVars == <<gfa, upl, dlc, rfr>>
claimVars == <<cnl, claim_cooldowns, daily_claims, scl, adminVars>>
xferVars == <<gift_cooldowns, giv, prop, cfm>>
econVars == <<shopVars, codeVars, buy, rdm>>

\* --------------------------------------------------------------- helpers
Max(a, b) == IF a >= b THEN a ELSE b
Min(a, b) == IF a <= b THEN a ELSE b

\* list.pop(i) on a 1-based sequence
RemoveAt(s, i) == SubSeq(s, 1, i - 1) \o SubSeq(s, i + 1, Len(s))

\* number of elements of s with the given character id
CountId(s, c) == Cardinality({i \in 1..Len(s) : s[i].id = c})

\* number of occurrences of x in s
Count(s, x) == Cardinality({i \in 1..Len(s) : s[i] = x})

\* dict[k] = v
Put(d, k, v) == [x \in DOMAIN d \cup {k} |-> IF x = k THEN v ELSE d[x]]

\* del dict[k]
Del(d, k) == [x \in DOMAIN d \ {k} |-> d[x]]

NoChar == [id |-> 0, name |-> 0, rarity |-> 0]
NoItem == [character |-> NoChar, price |-> 0, rarity |-> 0]

\* ------------------------------------------------------------- utils.py
\* parse_rarity on the integer rarities the catalog stores
parse_rarity(r) == IF r \in 1..MAX_RARITY THEN r ELSE 1

\* ------------------------------------------------------- account store
\* update_one({'id': u}, {'$inc': {'balance': d}}) without upsert: no document, no change
IncBalanceMutantAll(bal, reg, u, d) == [v \in DOMAIN bal |-> bal[v] + d]
IncBalance(bal, reg, u, d) ==
    IF u \in reg THEN [bal EXCEPT ![u] = @ + d] ELSE bal

\* update_one({'id': u}, {'$push': {'characters': ch}}, upsert=True)
PushChar(chars, u, ch) == [chars EXCEPT ![u] = Append(@, ch)]

\* the snapshot copied into the account: id, name, anime, rarity, img_url
char_to_add(doc) == [id |-> doc.id, name |-> doc.name, rarity |-> doc.rarity]

\* update_one({'id': u}, ..., upsert=True) creates the document when absent
Upsert(reg, u) == reg \cup {u}

\* find_one({'id': u}): user.get('balance', 0) if user else 0
ReadBalance(u) == IF u \in registered THEN balance[u] ELSE 0

\* user_id != OWNER_ID and user_id not in SUDO_USERS
SUDO_USERS == {}
Authorized(u) == u = OWNER_ID \/ u \in SUDO_USERS

\* ---------------------------------------------------------------- shop.py
\* get_shop_items, lines 29-32: the cached listing is still fresh
CacheFreshMutantNever(chat) == FALSE
CacheFresh(chat) ==
    /\ chat \in DOMAIN shop_cache
    /\ now - shop_cache[chat].timestamp < SHOP_REFRESH_INTERVAL

\* what {"$sample": {"size": MAX_SHOP_ITEMS * 2}} can return: as many documents
\* as asked for or as the collection holds, in any order, possibly repeated
SampleSize == Min(MAX_SHOP_ITEMS * 2, Cardinality(DOMAIN catalog))
Samples == [1..SampleSize -> {catalog[c] : c \in DOMAIN catalog}]

\* get_shop_items, lines 55-58
PriceMutantWide(doc, variation) ==
    Max(MIN_PRICE, parse_rarity(doc.rarity) * BASE_MULTIPLIER + 2 * variation)
Price(doc, variation) ==
    Max(MIN_PRICE, parse_rarity(doc.rarity) * BASE_MULTIPLIER + variation)

\* get_shop_items, lines 44-67: the loop over all_chars; vs[i] is the value
\* random.randint gives for the i-th sampled document
RECURSIVE GenLoop(_, _, _, _, _)
GenLoop(all_chars, vs, i, items, seen_ids) ==
    IF i > Len(all_chars) \/ Len(items) >= MAX_SHOP_ITEMS THEN items
    ELSE IF all_chars[i].id \in seen_ids
         THEN GenLoop(all_chars, vs, i + 1, items, seen_ids)
         ELSE GenLoop(all_chars, vs, i + 1,
                      Append(items, [character |-> all_chars[i],
                                     price |-> Price(all_chars[i], vs[i]),
                                     rarity |-> parse_rarity(all_chars[i].rarity)]),
                      seen_ids \cup {all_chars[i].id})
GenItemsMutantNoDedup(all_chars, vs) ==
    [i \in 1..Len(all_chars) |->
        [character |-> all_chars[i], price |-> Price(all_chars[i], vs[i]),
         rarity |-> parse_rarity(all_chars[i].rarity)]]
GenItems(all_chars, vs) == GenLoop(all_chars, vs, 1, <<>>, {})

BuyIdle == [pc |-> "idle", chat |-> 0, user |-> 0, num |-> 0, t0 |-> 0,
            item |-> NoItem, gen |-> 0, result |-> "none"]

\* buy_cmd, lines 150-156, once get_shop_items has returned items
BuyAfterItemsMutantClamp(task, items, g) ==
    IF items = <<>>
    THEN [task EXCEPT !.pc = "done", !.result = "InvalidItem"]
    ELSE [task EXCEPT !.pc = "find", !.item = items[Min(task.num, Len(items))],
                      !.gen = g]
BuyAfterItems(task, items, g) ==
    IF items = <<>> \/ task.num > Len(items)
    THEN [task EXCEPT !.pc = "done", !.result = "InvalidItem"]
    ELSE [task EXCEPT !.pc = "find", !.item = items[task.num], !.gen = g]

\* /buy <item_number>, lines 131-148: a number below 1 ends the update at line
\* 146; else, when the cached listing is fresh, get_shop_items returns it
\* without suspending; else the task waits for the sample
BuyStart(t, chat, user, num) ==
    /\ buy[t].pc = "idle"
    /\ \A s \in BuyTasks : s < t => buy[s].pc # "idle"
    /\ LET task == [BuyIdle EXCEPT !.chat = chat, !.user = user, !.num = num,
                                   !.t0 = now]
       IN  buy' = [buy EXCEPT ![t] =
                     IF num < 1
                     THEN [task EXCEPT !.pc = "done", !.result = "InvalidNumber"]
                     ELSE IF CacheFresh(chat)
                     THEN BuyAfterItems(task, shop_cache[chat].items, shop_gen[chat])
                     ELSE [task EXCEPT !.pc = "sample"]]
    /\ UNCHANGED <<claimVars, clockVars, acctVars, catVars, shopVars, codeVars, rdm, xferVars>>

\* get_shop_items, lines 41-75: the sample arrives, the listing is built and cached
BuySample(t, all_chars, vs) ==
    /\ buy[t].pc = "sample"
    /\ LET items == GenItems(all_chars, vs)
           chat == buy[t].chat
       IN  /\ shop_cache' = Put(shop_cache, chat,
                                [items |-> items, timestamp |-> buy[t].t0])
           /\ shop_gen' = [shop_gen EXCEPT ![chat] = @ + 1]
           /\ buy' = [buy EXCEPT ![t] = BuyAfterItems(@, items, shop_gen[chat] + 1)]
    /\ UNCHANGED <<claimVars, clockVars, acctVars, catVars, codeVars, rdm, xferVars>>

\* buy_cmd, lines 158-182: the balance read returns, is compared with the price,
\* and the decrement is sent
BuyFind(t) ==
    /\ buy[t].pc = "find"
    /\ buy' = [buy EXCEPT ![t] =
                 IF ReadBalance(@.user) < @.item.price
                 THEN [@ EXCEPT !.pc = "done", !.result = "InsufficientFunds"]
                 ELSE [@ EXCEPT !.pc = "inc"]]
    /\ UNCHANGED <<claimVars, clockVars, acctVars, catVars, shopVars, codeVars, rdm, xferVars>>

\* buy_cmd, lines 179-197: {'$inc': {'balance': -price}} is applied; the snapshot
\* is built and the push is sent
BuyInc(t) ==
    /\ buy[t].pc = "inc"
    /\ balance' = IncBalance(balance, registered, buy[t].user, 0 - buy[t].item.price)
    /\ buy' = [buy EXCEPT ![t].pc = "push"]
    /\ UNCHANGED <<claimVars, clockVars, registered, characters, catVars, shopVars, codeVars, rdm, xferVars>>

\* buy_cmd, lines 193-197: {'$push': {'characters': char_to_add}}, upsert=True
BuyPush(t) ==
    /\ buy[t].pc = "push"
    /\ characters' = PushChar(characters, buy[t].user, char_to_add(buy[t].item.character))
    /\ registered' = Upsert(registered, buy[t].user)
    /\ buy' = [buy EXCEPT ![t].pc = "pop"]
    /\ UNCHANGED <<claimVars, clockVars, balance, catVars, shopVars, codeVars, rdm, xferVars>>

\* buy_cmd, lines 199-218: shop_cache[chat_id]['items'].pop(item_num - 1); a
\* missing chat (KeyError) or a short list (IndexError) ends in the except branch
BuyPop(t) ==
    /\ buy[t].pc = "pop"
    /\ LET chat == buy[t].chat
           num == buy[t].num
       IN  IF chat \in DOMAIN shop_cache /\ num <= Len(shop_cache[chat].items)
           THEN /\ shop_cache' = [shop_cache EXCEPT ![chat].items = RemoveAt(@, num)]
                /\ buy' = [buy EXCEPT ![t].pc = "done", ![t].result = "ok"]
           ELSE /\ shop_cache' = shop_cache
                /\ buy' = [buy EXCEPT ![t].pc = "done", ![t].result = "Error"]
    /\ UNCHANGED <<claimVars, clockVars, acctVars, catVars, shop_gen, codeVars, rdm, xferVars>>

\* buy_cmd, lines 179-182 and 216-218: the decrement raises; the except branch
\* logs, replies and returns
BuyIncFails(t) ==
    /\ buy[t].pc = "inc"
    /\ buy' = [buy EXCEPT ![t].pc = "done", ![t].result = "StorageError"]
    /\ UNCHANGED <<claimVars, clockVars, acctVars, catVars, shopVars, codeVars, rdm, xferVars>>

\* buy_cmd, lines 193-197 and 216-218: the push raises after the decrement was
\* applied; the except branch logs, replies and returns
BuyPushFails(t) ==
    /\ buy[t].pc = "push"
    /\ buy' = [buy EXCEPT ![t].pc = "done", ![t].result = "StorageError"]
    /\ UNCHANGED <<claimVars, clockVars, acctVars, catVars, shopVars, codeVars, rdm, xferVars>>

RefreshIdle == [pc |-> "idle", chat |-> 0, t0 |-> 0]

\* shop_refresh_callback, lines 221-236, once query.answer() has returned: the
\* chat's entry is deleted and get_shop_items, finding none, waits for the sample
RefreshStart(t, chat) ==
    /\ rfr[t].pc = "idle"
    /\ \A s \in RefreshTasks : s < t => rfr[s].pc # "idle"
    /\ shop_cache' = IF chat \in DOMAIN shop_cache THEN Del(shop_cache, chat)
                     ELSE shop_cache
    /\ rfr' = [rfr EXCEPT ![t] = [pc |-> "sample", chat |-> chat, t0 |-> now]]
    /\ UNCHANGED <<cnl, claim_cooldowns, daily_claims, scl, gfa, upl, dlc,
                   clockVars, acctVars, catVars, shop_gen, codeVars, buy, rdm, xferVars>>

\* get_shop_items, lines 41-75, called at line 236: the sample arrives, the
\* listing is built and cached
RefreshSample(t, all_chars, vs) ==
    /\ rfr[t].pc = "sample"
    /\ shop_cache' = Put(shop_cache, rfr[t].chat,
                         [items |-> GenItems(all_chars, vs), timestamp |-> rfr[t].t0])
    /\ shop_gen' = [shop_gen EXCEPT ![rfr[t].chat] = @ + 1]
    /\ rfr' = [rfr EXCEPT ![t].pc = "done"]
    /\ UNCHANGED <<cnl, claim_cooldowns, daily_claims, scl, gfa, upl, dlc,
                   clockVars, acctVars, catVars, codeVars, buy, rdm, xferVars>>

\* --------------------------------------------------------------- give.py
\* /givecoins <amount> <user>, lines 113-161: {'$inc': {'balance': amount}}, upsert=True
GiveCoins(inv, u, amount) ==
    /\ Authorized(inv)
    /\ ReadBalance(u) + amount <= MaxBalance
    /\ balance' = [balance EXCEPT ![u] = @ + amount]
    /\ registered' = Upsert(registered, u)
    /\ UNCHANGED <<claimVars, clockVars, characters, catVars, shopVars, codeVars, buy, rdm, xferVars>>

\* -------------------------------------------------------------- redeem.py
RedeemIdle == [pc |-> "idle", user |-> 0, code |-> "", t0 |-> 0, oid |-> 0,
               reward |-> 0, result |-> "none"]

\* redeem_cmd, lines 39-41: the user's last redemption is less than 60 s old
InRedeemCooldownMutantNever(u) == FALSE
InRedeemCooldown(u) ==
    /\ u \in DOMAIN user_redeem_history
    /\ LET h == user_redeem_history[u]
           last_redeem == IF Len(h) > 0 THEN h[Len(h)] ELSE 0
       IN  now - last_redeem < REDEEM_COOLDOWN_SECONDS

\* redeem_cmd, lines 65-66: expires is set (0 stands for None) and in the past
IsExpired(code_data) == code_data.expires # 0 /\ now > code_data.expires

\* redeem_cmd, lines 72-80
AlreadyRedeemedMutantNever(code_data, u) == FALSE
AlreadyRedeemed(code_data, u) == \E i \in 1..Len(code_data.redeemed_by) : code_data.redeemed_by[i] = u
MaxUsesReached(code_data) ==
    code_data.max_uses # 0 /\ Len(code_data.redeemed_by) >= code_data.max_uses

\* redeem_cmd, lines 83-87: reward_type == 'coins' ('coins' when the key is absent)
IsCoinsMutantAlways(code_data) == TRUE
IsCoins(code_data) == code_data.reward_type = "coins"

\* redeem_cmd, lines 37-92: everything up to the first call that suspends; the
\* replies of the rejecting branches end the update
RedeemOutcomeMutantMaxFirst(u, code) ==
    IF InRedeemCooldown(u) THEN "Cooldown"
    ELSE IF code \notin DOMAIN redeem_codes THEN "NotFound"
    ELSE IF MaxUsesReached(redeem_codes[code]) THEN "MaxUsesReached"
    ELSE IF AlreadyRedeemed(redeem_codes[code], u) THEN "AlreadyRedeemed"
    ELSE IF IsExpired(redeem_codes[code]) THEN "Expired"
    ELSE IF ~IsCoins(redeem_codes[code]) THEN "Unsupported"
    ELSE "inc"
RedeemOutcome(u, code) ==
    IF InRedeemCooldown(u) THEN "Cooldown"
    ELSE IF code \notin DOMAIN redeem_codes THEN "NotFound"
    ELSE IF IsExpired(redeem_codes[code]) THEN "Expired"
    ELSE IF AlreadyRedeemed(redeem_codes[code], u) THEN "AlreadyRedeemed"
    ELSE IF MaxUsesReached(redeem_codes[code]) THEN "MaxUsesReached"
    ELSE IF ~IsCoins(redeem_codes[code]) THEN "Unsupported"
    ELSE "inc"

\* /redeem <code>, lines 33-92
RedeemStart(t, u, code) ==
    /\ rdm[t].pc \in {"idle", "done"}
    /\ \A s \in RedeemTasks : s < t => rdm[s].pc \notin {"idle", "done"}
    /\ LET out == RedeemOutcome(u, code)
           task == [RedeemIdle EXCEPT !.user = u, !.code = code]
       IN  /\ rdm' = [rdm EXCEPT ![t] =
                        IF out = "inc"
                        THEN [task EXCEPT !.pc = "inc", !.t0 = now,
                                          !.oid = redeem_codes[code].oid,
                                          !.reward = redeem_codes[code].reward_amount]
                        ELSE [task EXCEPT !.pc = "done", !.result = out]]
           \* line 67: del redeem_codes[code]
           /\ redeem_codes' = IF out = "Expired" THEN Del(redeem_codes, code)
                              ELSE redeem_codes
    /\ UNCHANGED <<claimVars, clockVars, acctVars, catVars, shopVars, code_seq,
                   user_redeem_history, buy, xferVars>>

\* redeem_cmd, lines 88-92: {'$inc': {'balance': reward_amount}}, upsert=True
RedeemInc(t) ==
    /\ rdm[t].pc = "inc"
    /\ balance' = [balance EXCEPT ![rdm[t].user] = @ + rdm[t].reward]
    /\ registered' = Upsert(registered, rdm[t].user)
    /\ rdm' = [rdm EXCEPT ![t].pc = "record"]
    /\ UNCHANGED <<claimVars, clockVars, characters, catVars, shopVars, codeVars, buy, xferVars>>

\* redeem_cmd, lines 88-92 and 123-125: the update raises; the except branch
\* logs, replies and returns
RedeemIncFails(t) ==
    /\ rdm[t].pc = "inc"
    /\ rdm' = [rdm EXCEPT ![t] = [RedeemIdle EXCEPT !.pc = "done", !.user = rdm[t].user,
                                                     !.code = rdm[t].code,
                                                     !.result = "StorageError"]]
    /\ UNCHANGED <<claimVars, clockVars, acctVars, catVars, shopVars, codeVars, buy, xferVars>>

\* redeem_cmd, lines 104-112, after the update returned: code_data is the dict
\* read at line 62; the append reaches the registry only while that very dict
\* is still the one stored under the code
RedeemRecord(t) ==
    /\ rdm[t].pc = "record"
    /\ LET u == rdm[t].user
           code == rdm[t].code
       IN  /\ redeem_codes' =
                 IF code \in DOMAIN redeem_codes /\ redeem_codes[code].oid = rdm[t].oid
                 THEN [redeem_codes EXCEPT ![code].redeemed_by = Append(@, u)]
                 ELSE redeem_codes
           /\ user_redeem_history' =
                 Put(user_redeem_history, u,
                     Append(IF u \in DOMAIN user_redeem_history
                            THEN user_redeem_history[u] ELSE <<>>, rdm[t].t0))
    /\ rdm' = [rdm EXCEPT ![t] = [RedeemIdle EXCEPT !.pc = "done", !.user = rdm[t].user,
                                                     !.code = rdm[t].code,
                                                     !.result = "ok"]]
    /\ UNCHANGED <<claimVars, clockVars, acctVars, catVars, shopVars, code_seq, buy, xferVars>>

\* /createcode <coins> [uses] [days_valid], lines 129-183; generate_code draws
\* the code at random
CreateCode(inv, code, coins, uses, days) ==
    /\ Authorized(inv)
    /\ code_seq < MaxCodes
    /\ code_seq' = code_seq + 1
    /\ redeem_codes' =
          Put(redeem_codes, code,
              [reward_type |-> "coins", reward_amount |-> coins,
               max_uses |-> uses,
               expires |-> IF days # 0 THEN now + days * SECONDS_PER_DAY ELSE 0,
               redeemed_by |-> <<>>, oid |-> code_seq + 1])
    /\ UNCHANGED <<claimVars, clockVars, acctVars, catVars, shopVars, user_redeem_history,
                   buy, rdm, xferVars>>

\* --------------------------------------------------------------- give.py
GiveIdle == [pc |-> "idle", user |-> 0, char |-> NoChar, result |-> "none"]

\* /give <character_id> <user>, lines 16-76: the catalog read returns; an
\* absent character ends the update, else the snapshot is built and the push sent
GiveStart(t, inv, char_id, recipient_id) ==
    /\ giv[t].pc = "idle"
    /\ \A s \in GiveTasks : s < t => giv[s].pc # "idle"
    /\ Authorized(inv)
    /\ giv' = [giv EXCEPT ![t] =
                 IF char_id \notin DOMAIN catalog
                 THEN [GiveIdle EXCEPT !.pc = "done", !.user = recipient_id,
                                       !.result = "NotFound"]
                 ELSE [GiveIdle EXCEPT !.pc = "push", !.user = recipient_id,
                                       !.char = char_to_add(catalog[char_id])]]
    /\ UNCHANGED <<claimVars, clockVars, acctVars, catVars, econVars, gift_cooldowns, prop, cfm>>

\* give_cmd, lines 78-82: {'$push': {'characters': char_to_add}}, upsert=True
GivePush(t) ==
    /\ giv[t].pc = "push"
    /\ characters' = PushChar(characters, giv[t].user, giv[t].char)
    /\ registered' = Upsert(registered, giv[t].user)
    /\ giv' = [giv EXCEPT ![t].pc = "done", ![t].result = "ok"]
    /\ UNCHANGED <<claimVars, clockVars, balance, catVars, econVars, gift_cooldowns, prop, cfm>>

\* ----------------------------------------------------------- setrarity.py
\* /lockchar <character_id>, lines 77-94 and 168-188: upsert of the lock document
LockChar(inv, character_id) ==
    /\ Authorized(inv)
    /\ locked' = locked \cup {character_id}
    /\ UNCHANGED <<claimVars, clockVars, acctVars, catalog, econVars, xferVars>>

\* /unlockchar <character_id>, lines 97-104 and 201-219: delete of the lock document
UnlockChar(inv, character_id) ==
    /\ Authorized(inv)
    /\ locked' = locked \ {character_id}
    /\ UNCHANGED <<claimVars, clockVars, acctVars, catalog, econVars, xferVars>>

\* is_character_locked, lines 67-74
is_character_locked(character_id) == character_id \in locked

\* --------------------------------------------------------------- gift.py
\* position of the first element of chars with the given id, 0 when there is none
\* (the loops at lines 87-91 and 165-168)
FirstWithId(chars, char_id) ==
    IF \E i \in 1..Len(chars) : chars[i].id = char_id
    THEN CHOOSE i \in 1..Len(chars) :
            /\ chars[i].id = char_id
            /\ \A j \in 1..(i - 1) : chars[j].id # char_id
    ELSE 0

\* {'$pull': {'characters': {'id': char_id}}}: every element with that id goes
RECURSIVE PullId(_, _)
PullId(chars, char_id) ==
    IF chars = <<>> THEN <<>>
    ELSE IF Head(chars).id = char_id THEN PullId(Tail(chars), char_id)
         ELSE <<Head(chars)>> \o PullId(Tail(chars), char_id)

\* time.time(), a float: now seconds and frac parts, in parts of a second
time_time == now * SubSeconds + frac

\* int(x) of a float x given in parts of a second: truncation towards zero
int(x) == IF x >= 0 THEN x \div SubSeconds ELSE 0 - ((0 - x) \div SubSeconds)

\* gift_cmd, lines 26-33: remaining = int(gift_cooldowns[sender_id] - now);
\* remaining > 0
InGiftCooldown(u) ==
    u \in DOMAIN gift_cooldowns /\ int(gift_cooldowns[u] - time_time) > 0

\* lockedAtEmit is history: whether the character was locked when the button was sent
ProposeIdle == [pc |-> "idle", sender |-> 0, recipient |-> 0, char_id |-> 0,
                lockedAtEmit |-> FALSE, result |-> "none"]

\* /gift <character_id> <user>, lines 21-72: cooldown, arguments, recipient; then
\* the sender's document is asked for
ProposeStart(t, sender_id, recipient_id, char_id) ==
    /\ prop[t].pc = "idle"
    /\ \A s \in ProposeTasks : s < t => prop[s].pc # "idle"
    /\ LET task == [ProposeIdle EXCEPT !.sender = sender_id,
                                       !.recipient = recipient_id,
                                       !.char_id = char_id]
       IN  prop' = [prop EXCEPT ![t] =
                      IF InGiftCooldown(sender_id)
                      THEN [task EXCEPT !.pc = "done", !.result = "CooldownActive"]
                      ELSE IF recipient_id = sender_id
                      THEN [task EXCEPT !.pc = "done", !.result = "SelfGift"]
                      ELSE [task EXCEPT !.pc = "find"]]
    /\ UNCHANGED <<claimVars, clockVars, acctVars, catVars, econVars, gift_cooldowns, giv, cfm>>

\* gift_cmd, lines 72-127: the sender's document returns; when it holds the
\* character the confirmation message goes out with the button
\* gift_confirm:<sender_id>:<recipient_id>:<char_id>
ProposeFindMutantArms(t) ==
    /\ prop[t].pc = "find"
    /\ prop' = [prop EXCEPT ![t] = [@ EXCEPT !.pc = "done", !.result = "token"]]
    /\ gift_cooldowns' = Put(gift_cooldowns, prop[t].sender,
                             time_time + GIFT_COOLDOWN_SECONDS * SubSeconds)
    /\ UNCHANGED <<claimVars, clockVars, acctVars, catVars, econVars, giv, cfm>>
ProposeFind(t) ==
    /\ prop[t].pc = "find"
    /\ LET s == prop[t].sender
       IN  prop' = [prop EXCEPT ![t] =
                      IF s \notin registered \/ characters[s] = <<>>
                      THEN [@ EXCEPT !.pc = "done", !.result = "NoCharacters"]
                      ELSE IF FirstWithId(characters[s], @.char_id) = 0
                      THEN [@ EXCEPT !.pc = "done", !.result = "NotFound"]
                      ELSE [@ EXCEPT !.pc = "done", !.result = "token",
                                     !.lockedAtEmit =
                                         is_character_locked(prop[t].char_id)]]
    /\ UNCHANGED <<claimVars, clockVars, acctVars, catVars, econVars, gift_cooldowns, giv, cfm>>

\* the buttons sent so far: a confirm can only bear one of these
Token(p) == prop[p].pc = "done" /\ prop[p].result = "token"

\* lockedAtStart is history: whether the character was locked when confirm was pressed
\* k0 and r0 are history: how many instances with the id the sender and the
\* recipient held when the sender's document was read
ConfirmIdle == [pc |-> "idle", p |-> 0, inv |-> 0, sender |-> 0, recipient |-> 0,
                char_id |-> 0, character |-> NoChar, lockedAtStart |-> FALSE,
                k0 |-> 0, r0 |-> 0, result |-> "none"]

\* gift_callback, line 147: query.from_user.id != sender_id is the only test
\* made on the invoker
IsSenderMutantAnyone(from_user_id, sender_id) == TRUE
IsSender(from_user_id, sender_id) == from_user_id = sender_id

\* gift_callback, lines 130-156: the button of proposal p is pressed by inv
ConfirmStart(t, p, inv) ==
    /\ cfm[t].pc = "idle"
    /\ \A s \in ConfirmTasks : s < t => cfm[s].pc # "idle"
    /\ Token(p)
    /\ LET task == [ConfirmIdle EXCEPT !.p = p, !.inv = inv,
                                       !.sender = prop[p].sender,
                                       !.recipient = prop[p].recipient,
                                       !.char_id = prop[p].char_id,
                                       !.lockedAtStart =
                                           is_character_locked(prop[p].char_id)]
       IN  cfm' = [cfm EXCEPT ![t] =
                     IF ~IsSender(inv, prop[p].sender)
                     THEN [task EXCEPT !.pc = "done", !.result = "Unauthorized"]
                     ELSE [task EXCEPT !.pc = "find"]]
    /\ UNCHANGED <<claimVars, clockVars, acctVars, catVars, econVars, gift_cooldowns, giv, prop>>

\* gift_callback, lines 156-178: the sender's document returns; the first
\* element with the id is kept and the pull is sent
ConfirmFind(t) ==
    /\ cfm[t].pc = "find"
    /\ LET s == cfm[t].sender
           i == FirstWithId(characters[s], cfm[t].char_id)
       IN  cfm' = [cfm EXCEPT ![t] =
                     IF s \notin registered
                     THEN [@ EXCEPT !.pc = "done", !.result = "SenderNotFound"]
                     ELSE IF i = 0
                     THEN [@ EXCEPT !.pc = "done", !.result = "NotFound"]
                     ELSE [@ EXCEPT !.pc = "pull", !.character = characters[s][i],
                                    !.k0 = CountId(characters[s], cfm[t].char_id),
                                    !.r0 = CountId(characters[cfm[t].recipient],
                                                   cfm[t].char_id)]]
    /\ UNCHANGED <<claimVars, clockVars, acctVars, catVars, econVars, gift_cooldowns, giv, prop>>

\* gift_callback, lines 175-185: the pull is applied to the sender; the push is sent
ConfirmPull(t) ==
    /\ cfm[t].pc = "pull"
    /\ characters' = [characters EXCEPT ![cfm[t].sender] = PullId(@, cfm[t].char_id)]
    /\ cfm' = [cfm EXCEPT ![t].pc = "push"]
    /\ UNCHANGED <<claimVars, clockVars, registered, balance, catVars, econVars,
                   gift_cooldowns, giv, prop>>

\* gift_callback, lines 181-185: {'$push': {'characters': character}}, upsert=True
ConfirmPush(t) ==
    /\ cfm[t].pc = "push"
    /\ characters' = PushChar(characters, cfm[t].recipient, cfm[t].character)
    /\ registered' = Upsert(registered, cfm[t].recipient)
    /\ cfm' = [cfm EXCEPT ![t].pc = "finish"]
    /\ UNCHANGED <<claimVars, clockVars, balance, catVars, econVars, gift_cooldowns, giv, prop>>

\* gift_callback, lines 187-211: the task resumes and arms the cooldown
ConfirmFinish(t) ==
    /\ cfm[t].pc = "finish"
    /\ gift_cooldowns' = Put(gift_cooldowns, cfm[t].sender,
                             time_time + GIFT_COOLDOWN_SECONDS * SubSeconds)
    /\ cfm' = [cfm EXCEPT ![t].pc = "done", ![t].result = "ok"]
    /\ UNCHANGED <<claimVars, clockVars, acctVars, catVars, econVars, giv, prop>>

\* gift_callback, lines 175-178 and 213-215: the pull raises; the except branch
\* logs and replaces the message text
ConfirmPullFails(t) ==
    /\ cfm[t].pc = "pull"
    /\ cfm' = [cfm EXCEPT ![t].pc = "done", ![t].result = "StorageError"]
    /\ UNCHANGED <<claimVars, clockVars, acctVars, catVars, econVars, gift_cooldowns, giv, prop>>

\* gift_callback, lines 181-185 and 213-215: the push raises after the pull was
\* applied; the except branch logs and replaces the message text
ConfirmPushFails(t) ==
    /\ cfm[t].pc = "push"
    /\ cfm' = [cfm EXCEPT ![t].pc = "done", ![t].result = "StorageError"]
    /\ UNCHANGED <<claimVars, clockVars, acctVars, catVars, econVars, gift_cooldowns, giv, prop>>

\* gift_callback, line 220: query.from_user.id != sender_id
MayCancelMutantAnyone(from_user_id, sender_id) == TRUE
MayCancel(from_user_id, sender_id) == from_user_id = sender_id

CancelIdle == [pc |-> "idle", p |-> 0, inv |-> 0, sender |-> 0, result |-> "none"]

\* gift_callback, lines 217-225: the cancel button of proposal p is pressed by
\* inv; the sender's press is answered and the message text replaced
GiftCancel(t, p, inv) ==
    /\ cnl[t].pc = "idle"
    /\ \A s \in CancelTasks : s < t => cnl[s].pc # "idle"
    /\ Token(p)
    /\ cnl' = [cnl EXCEPT ![t] =
                 [CancelIdle EXCEPT !.pc = "done", !.p = p, !.inv = inv,
                                    !.sender = prop[p].sender,
                                    !.result = IF MayCancel(inv, prop[p].sender)
                                               THEN "cancelled"
                                               ELSE "Unauthorized"]]
    /\ UNCHANGED <<clockVars, acctVars, catVars, econVars, xferVars,
                   claim_cooldowns, daily_claims, scl, adminVars>>

\* {'$push': {'characters': {'$each': list}}}, upsert=True
PushEach(chars, u, list) == [chars EXCEPT ![u] = @ \o list]

\* characters is the list read at line 269; d0 is history: the recipient's
\* collection when the source's document was read
GiftallIdle == [pc |-> "idle", user |-> 0, recipient |-> 0, characters |-> <<>>,
                d0 |-> <<>>, result |-> "none"]

\* /giftall <user_id>, lines 228-259: authorization, recipient; then the
\* invoker's document is asked for
GiftallStart(t, user_id, recipient_id) ==
    /\ gfa[t].pc = "idle"
    /\ \A s \in GiftallTasks : s < t => gfa[s].pc # "idle"
    /\ gfa' = [gfa EXCEPT ![t] =
                 IF ~Authorized(user_id)
                 THEN [GiftallIdle EXCEPT !.pc = "done", !.user = user_id,
                                          !.recipient = recipient_id,
                                          !.result = "Unauthorized"]
                 ELSE [GiftallIdle EXCEPT !.pc = "find", !.user = user_id,
                                          !.recipient = recipient_id]]
    /\ UNCHANGED <<clockVars, acctVars, catVars, econVars, xferVars,
                   cnl, claim_cooldowns, daily_claims, scl, upl, dlc, rfr>>

\* giftall_cmd, lines 259-278: the invoker's document returns; the whole list
\* is kept and the push of all its elements is sent
GiftallFind(t) ==
    /\ gfa[t].pc = "find"
    /\ LET u == gfa[t].user
       IN  gfa' = [gfa EXCEPT ![t] =
                     IF u \notin registered \/ characters[u] = <<>>
                     THEN [@ EXCEPT !.pc = "done", !.result = "NoCharacters"]
                     ELSE [@ EXCEPT !.pc = "push", !.characters = characters[u],
                                    !.d0 = characters[gfa[t].recipient]]]
    /\ UNCHANGED <<clockVars, acctVars, catVars, econVars, xferVars,
                   cnl, claim_cooldowns, daily_claims, scl, upl, dlc, rfr>>

\* giftall_cmd, lines 274-284: the push is applied to the recipient; the
\* update that empties the invoker's list is sent
GiftallPush(t) ==
    /\ gfa[t].pc = "push"
    /\ characters' = PushEach(characters, gfa[t].recipient, gfa[t].characters)
    /\ registered' = Upsert(registered, gfa[t].recipient)
    /\ gfa' = [gfa EXCEPT ![t].pc = "clear"]
    /\ UNCHANGED <<clockVars, balance, catVars, econVars, xferVars,
                   cnl, claim_cooldowns, daily_claims, scl, upl, dlc, rfr>>

\* giftall_cmd, lines 281-300: {'$set': {'characters': []}} is applied to the
\* invoker's document
GiftallClear(t) ==
    /\ gfa[t].pc = "clear"
    /\ characters' = IF gfa[t].user \in registered
                     THEN [characters EXCEPT ![gfa[t].user] = <<>>]
                     ELSE characters
    /\ gfa' = [gfa EXCEPT ![t].pc = "done", ![t].result = "ok"]
    /\ UNCHANGED <<clockVars, registered, balance, catVars, econVars, xferVars,
                   cnl, claim_cooldowns, daily_claims, scl, upl, dlc, rfr>>

\* -------------------------------------------------------------- sclaim.py
\* the groups of Config.ALLOWED_GROUP_ID and Config.SUPPORT_GROUP_ID, lines 20-21
AllowedGroups == Chats

\* sclaim_cmd, lines 46-58: now - last_claim < CLAIM_COOLDOWN_HOURS * 3600
InClaimCooldown(u) ==
    /\ u \in DOMAIN claim_cooldowns
    /\ now - claim_cooldowns[u] < CLAIM_COOLDOWN_HOURS * SECONDS_PER_HOUR

\* sclaim_cmd, lines 63-75: the characters of rarity 3 and above, any character
\* when there is none ($sample returns every document when the size asked for
\* is not below their number)
ClaimPool ==
    LET high == {c \in DOMAIN catalog : catalog[c].rarity >= MIN_CLAIM_RARITY}
    IN  IF high # {} THEN high ELSE DOMAIN catalog

\* datetime.now().strftime("%Y-%m-%d"), line 107
Today(t) == t \div SECONDS_PER_DAY

SclaimIdle == [pc |-> "idle", user |-> 0, t0 |-> 0, char |-> NoChar, result |-> "none"]

\* /sclaim, lines 32-68: group, cooldown; then the catalog is asked for a sample
SclaimStart(t, chat, u) ==
    /\ scl[t].pc = "idle"
    /\ \A s \in SclaimTasks : s < t => scl[s].pc # "idle"
    /\ scl' = [scl EXCEPT ![t] =
                 IF chat \notin AllowedGroups
                 THEN [SclaimIdle EXCEPT !.pc = "done", !.user = u,
                                         !.result = "WrongChat"]
                 ELSE IF InClaimCooldown(u)
                 THEN [SclaimIdle EXCEPT !.pc = "done", !.user = u, !.t0 = now,
                                         !.result = "Cooldown"]
                 ELSE [SclaimIdle EXCEPT !.pc = "sample", !.user = u, !.t0 = now]]
    /\ UNCHANGED <<clockVars, acctVars, catVars, econVars, xferVars,
                   cnl, claim_cooldowns, daily_claims, adminVars>>

\* sclaim_cmd, lines 68-103: the sample returns, random.choice draws character c
\* of it, the snapshot is built and the push sent
SclaimSample(t, c) ==
    /\ scl[t].pc = "sample"
    /\ c \in ClaimPool
    /\ scl' = [scl EXCEPT ![t].pc = "push", ![t].char = char_to_add(catalog[c])]
    /\ UNCHANGED <<clockVars, acctVars, catVars, econVars, xferVars,
                   cnl, claim_cooldowns, daily_claims, adminVars>>

\* sclaim_cmd, lines 68-84: both samples come back empty
SclaimNoChars(t) ==
    /\ scl[t].pc = "sample"
    /\ ClaimPool = {}
    /\ scl' = [scl EXCEPT ![t].pc = "done", ![t].result = "NoCharacters"]
    /\ UNCHANGED <<clockVars, acctVars, catVars, econVars, xferVars,
                   cnl, claim_cooldowns, daily_claims, adminVars>>

\* sclaim_cmd, lines 99-103: {'$push': {'characters': char_to_add}}, upsert=True
SclaimPush(t) ==
    /\ scl[t].pc = "push"
    /\ characters' = PushChar(characters, scl[t].user, scl[t].char)
    /\ registered' = Upsert(registered, scl[t].user)
    /\ scl' = [scl EXCEPT ![t].pc = "finish"]
    /\ UNCHANGED <<clockVars, balance, catVars, econVars, xferVars,
                   cnl, claim_cooldowns, daily_claims, adminVars>>

\* sclaim_cmd, lines 105-113: the task resumes, arms the cooldown with the time
\* read at line 46 and counts the claim of the day
SclaimFinish(t) ==
    /\ scl[t].pc = "finish"
    /\ claim_cooldowns' = Put(claim_cooldowns, scl[t].user, scl[t].t0)
    /\ LET day == Today(now)
           old == IF day \in DOMAIN daily_claims THEN daily_claims[day]
                  ELSE [count |-> 0, users |-> <<>>]
       IN  daily_claims' =
               Put(daily_claims, day,
                   [count |-> old.count + 1,
                    users |-> IF Count(old.users, scl[t].user) > 0 THEN old.users
                              ELSE Append(old.users, scl[t].user)])
    /\ scl' = [scl EXCEPT ![t].pc = "done", ![t].result = "ok"]
    /\ UNCHANGED <<clockVars, acctVars, catVars, econVars, xferVars, cnl, adminVars>>

\* /resetsclaim <user_id>, lines 164-193: del claim_cooldowns[target_id] when
\* the target has an entry
ResetSclaim(inv, target_id) ==
    /\ Authorized(inv)
    /\ target_id \in DOMAIN claim_cooldowns
    /\ claim_cooldowns' = Del(claim_cooldowns, target_id)
    /\ UNCHANGED <<clockVars, acctVars, catVars, econVars, xferVars,
                   cnl, daily_claims, scl, adminVars>>

\* -------------------------------------------------------------- upload.py
UploadIdle == [pc |-> "idle", new_id |-> 0, name |-> 0, rarity |-> 0, result |-> "none"]

\* /uploadurl <name> <anime> <rarity> <url>, lines 165-201: authorization and
\* arguments; then the catalog is asked for its document of highest id
UploadStart(t, inv, name, rarity) ==
    /\ upl[t].pc = "idle"
    /\ \A s \in UploadTasks : s < t => upl[s].pc # "idle"
    /\ upl' = [upl EXCEPT ![t] =
                 IF ~Authorized(inv)
                 THEN [UploadIdle EXCEPT !.pc = "done", !.result = "Unauthorized"]
                 ELSE IF rarity \notin 1..MAX_RARITY
                 THEN [UploadIdle EXCEPT !.pc = "done", !.result = "InvalidRarity"]
                 ELSE [UploadIdle EXCEPT !.pc = "find", !.name = name,
                                         !.rarity = rarity]]
    /\ UNCHANGED <<clockVars, acctVars, catVars, econVars, xferVars,
                   cnl, claim_cooldowns, daily_claims, scl, gfa, dlc, rfr>>

\* uploadurl_cmd, lines 199-217: new_id is the highest id plus one, 1 for an
\* empty catalog; the insert is sent
UploadFind(t) ==
    /\ upl[t].pc = "find"
    /\ LET ids == DOMAIN catalog
           last == IF ids = {} THEN 0 ELSE CHOOSE c \in ids : \A d \in ids : d <= c
       IN  upl' = [upl EXCEPT ![t].pc = "insert", ![t].new_id = last + 1]
    /\ UNCHANGED <<clockVars, acctVars, catVars, econVars, xferVars,
                   cnl, claim_cooldowns, daily_claims, scl, gfa, dlc, rfr>>

\* uploadurl_cmd, lines 207-232: insert_one(character) is applied
UploadInsert(t) ==
    /\ upl[t].pc = "insert"
    /\ catalog' = Put(catalog, upl[t].new_id,
                      [id |-> upl[t].new_id, name |-> upl[t].name,
                       rarity |-> upl[t].rarity])
    /\ upl' = [upl EXCEPT ![t].pc = "done", ![t].result = "ok"]
    /\ UNCHANGED <<clockVars, acctVars, locked, econVars, xferVars,
                   cnl, claim_cooldowns, daily_claims, scl, gfa, dlc, rfr>>

DeleteIdle == [pc |-> "idle", char_id |-> 0, result |-> "none"]

\* /deletechar <id>, lines 239-260: authorization; then the catalog is asked
\* for the character
DeleteStart(t, inv, char_id) ==
    /\ dlc[t].pc = "idle"
    /\ \A s \in DeleteTasks : s < t => dlc[s].pc # "idle"
    /\ dlc' = [dlc EXCEPT ![t] =
                 IF ~Authorized(inv)
                 THEN [DeleteIdle EXCEPT !.pc = "done", !.char_id = char_id,
                                         !.result = "Unauthorized"]
                 ELSE [DeleteIdle EXCEPT !.pc = "find", !.char_id = char_id]]
    /\ UNCHANGED <<clockVars, acctVars, catVars, econVars, xferVars,
                   cnl, claim_cooldowns, daily_claims, scl, gfa, upl, rfr>>

\* deletechar_cmd, lines 258-272: the character returns or not; the delete is sent
DeleteFind(t) ==
    /\ dlc[t].pc = "find"
    /\ dlc' = [dlc EXCEPT ![t] =
                 IF @.char_id \notin DOMAIN catalog
                 THEN [@ EXCEPT !.pc = "done", !.result = "NotFound"]
                 ELSE [@ EXCEPT !.pc = "delete"]]
    /\ UNCHANGED <<clockVars, acctVars, catVars, econVars, xferVars,
                   cnl, claim_cooldowns, daily_claims, scl, gfa, upl, rfr>>

\* deletechar_cmd, lines 270-283: collection.delete_one({'id': char_id}) is
\* applied to the catalog; user_collection is not touched
DeleteApplyMutantCascade(t) ==
    /\ dlc[t].pc = "delete"
    /\ catalog' = IF dlc[t].char_id \in DOMAIN catalog
                  THEN Del(catalog, dlc[t].char_id) ELSE catalog
    /\ characters' = [u \in Users |-> PullId(characters[u], dlc[t].char_id)]
    /\ dlc' = [dlc EXCEPT ![t].pc = "done", ![t].result = "ok"]
    /\ UNCHANGED <<clockVars, registered, balance, locked, econVars, xferVars,
                   cnl, claim_cooldowns, daily_claims, scl, gfa, upl, rfr>>
DeleteApply(t) ==
    /\ dlc[t].pc = "delete"
    /\ catalog' = IF dlc[t].char_id \in DOMAIN catalog
                  THEN Del(catalog, dlc[t].char_id) ELSE catalog
    /\ dlc' = [dlc EXCEPT ![t].pc = "done", ![t].result = "ok"]
    /\ UNCHANGED <<clockVars, acctVars, locked, econVars, xferVars,
                   cnl, claim_cooldowns, daily_claims, scl, gfa, upl, rfr>>

\* ------------------------------------------------------------------ clock
Tick(d) ==
    /\ ticks < MaxTicks
    /\ now' = now + d
    /\ frac' = frac
    /\ ticks' = ticks + 1
    /\ UNCHANGED <<claimVars, acctVars, catVars, econVars, xferVars>>

\* the clock advances by one part of a second
TickFraction ==
    /\ ticks < MaxTicks
    /\ frac' = (frac + 1) % SubSeconds
    /\ now' = IF frac + 1 = SubSeconds THEN now + 1 ELSE now
    /\ ticks' = ticks + 1
    /\ UNCHANGED <<claimVars, acctVars, catVars, econVars, xferVars>>

\* ------------------------------------------------------------------- init
\* the catalog as uploaded: ids from 1, an integer rarity each
Catalog0 == [c \in CharIds |-> [id |-> c, name |-> c, rarity |-> 2 * c - 1]]

Init ==
    /\ now = 0
    /\ ticks = 0
    /\ registered = {}
    /\ balance = [u \in Users |-> 0]
    /\ characters = [u \in Users |-> <<>>]
    /\ catalog = Catalog0
    /\ locked = {}
    /\ shop_cache = <<>>
    /\ shop_gen = [c \in Chats |-> 0]
    /\ redeem_codes = <<>>
    /\ code_seq = 0
    /\ user_redeem_history = <<>>
    /\ buy = [t \in BuyTasks |-> BuyIdle]
    /\ rdm = [t \in RedeemTasks |-> RedeemIdle]
    /\ gift_cooldowns = <<>>
    /\ giv = [t \in GiveTasks |-> GiveIdle]
    /\ prop = [t \in ProposeTasks |-> ProposeIdle]
    /\ cfm = [t \in ConfirmTasks |-> ConfirmIdle]
    /\ cnl = [t \in CancelTasks |-> CancelIdle]
    /\ claim_cooldowns = <<>>
    /\ daily_claims = <<>>
    /\ scl = [t \in SclaimTasks |-> SclaimIdle]
    /\ gfa = [t \in GiftallTasks |-> GiftallIdle]
    /\ upl = [t \in UploadTasks |-> UploadIdle]
    /\ dlc = [t \in DeleteTasks |-> DeleteIdle]
    /\ rfr = [t \in RefreshTasks |-> RefreshIdle]
    /\ frac = 0

\* A catalog of NListed characters, of which every other one is of rarity 1
ListedIds == 1..NListed
ListingCatalog ==
    [c \in ListedIds |-> [id |-> c, name |-> c,
                          rarity |-> IF c % 2 = 1 THEN 1 ELSE c]]
InitListing ==
    /\ now = 0
    /\ ticks = 0
    /\ registered = {}
    /\ balance = [u \in Users |-> 0]
    /\ characters = [u \in Users |-> <<>>]
    /\ catalog = ListingCatalog
    /\ locked = {}
    /\ shop_cache = <<>>
    /\ shop_gen = [c \in Chats |-> 0]
    /\ redeem_codes = <<>>
    /\ code_seq = 0
    /\ user_redeem_history = <<>>
    /\ buy = [t \in BuyTasks |-> BuyIdle]
    /\ rdm = [t \in RedeemTasks |-> RedeemIdle]
    /\ gift_cooldowns = <<>>
    /\ giv = [t \in GiveTasks |-> GiveIdle]
    /\ prop = [t \in ProposeTasks |-> ProposeIdle]
    /\ cfm = [t \in ConfirmTasks |-> ConfirmIdle]
    /\ cnl = [t \in CancelTasks |-> CancelIdle]
    /\ claim_cooldowns = <<>>
    /\ daily_claims = <<>>
    /\ scl = [t \in SclaimTasks |-> SclaimIdle]
    /\ gfa = [t \in GiftallTasks |-> GiftallIdle]
    /\ upl = [t \in UploadTasks |-> UploadIdle]
    /\ dlc = [t \in DeleteTasks |-> DeleteIdle]
    /\ rfr = [t \in RefreshTasks |-> RefreshIdle]
    /\ frac = 0

\* The reward kinds redeem_cmd tells apart at lines 87-102: 'coins', 'character'
\* and anything else.  createcode_cmd writes 'coins' only (line 176), so the
\* branches for the other kinds are exercised from a registry that already
\* holds one code of some kind, with the expiry and the limit of uses that
\* createcode_cmd can give it, and a user who may have redeemed at time 0.
RewardKinds == {"coins", "character", "other"}
InitKinds ==
    /\ now = 0
    /\ ticks = 0
    /\ registered = {}
    /\ balance = [u \in Users |-> 0]
    /\ characters = [u \in Users |-> <<>>]
    /\ catalog = Catalog0
    /\ locked = {}
    /\ shop_cache = <<>>
    /\ shop_gen = [c \in Chats |-> 0]
    /\ \E code \in CodeNames, kind \in RewardKinds, a \in CoinAmounts,
          m \in MaxUsesArgs, d \in DaysArgs :
          redeem_codes = Put(<<>>, code,
                             [reward_type |-> kind, reward_amount |-> a,
                              max_uses |-> m,
                              expires |-> IF d # 0 THEN d * SECONDS_PER_DAY ELSE 0,
                              redeemed_by |-> <<>>, oid |-> 1])
    /\ code_seq = 1
    /\ \E h \in {<<>>} \cup {Put(<<>>, u, <<0>>) : u \in Redeemers} :
          user_redeem_history = h
    /\ buy = [t \in BuyTasks |-> BuyIdle]
    /\ rdm = [t \in RedeemTasks |-> RedeemIdle]
    /\ gift_cooldowns = <<>>
    /\ giv = [t \in GiveTasks |-> GiveIdle]
    /\ prop = [t \in ProposeTasks |-> ProposeIdle]
    /\ cfm = [t \in ConfirmTasks |-> ConfirmIdle]
    /\ cnl = [t \in CancelTasks |-> CancelIdle]
    /\ claim_cooldowns = <<>>
    /\ daily_claims = <<>>
    /\ scl = [t \in SclaimTasks |-> SclaimIdle]
    /\ gfa = [t \in GiftallTasks |-> GiftallIdle]
    /\ upl = [t \in UploadTasks |-> UploadIdle]
    /\ dlc = [t \in DeleteTasks |-> DeleteIdle]
    /\ rfr = [t \in RefreshTasks |-> RefreshIdle]
    /\ frac = 0

\* ------------------------------------------------------ next-state relations
\* tasks that have started and not ended
BuyInFlight == {t \in BuyTasks : buy[t].pc \notin {"idle", "done"}}
RedeemInFlight == {t \in RedeemTasks : rdm[t].pc \notin {"idle", "done"}}
GiveInFlight == {t \in GiveTasks : giv[t].pc \notin {"idle", "done"}}
ProposeInFlight == {t \in ProposeTasks : prop[t].pc \notin {"idle", "done"}}
ConfirmInFlight == {t \in ConfirmTasks : cfm[t].pc \notin {"idle", "done"}}
SclaimInFlight == {t \in SclaimTasks : scl[t].pc \notin {"idle", "done"}}
Quiet ==
    /\ BuyInFlight = {} /\ RedeemInFlight = {} /\ GiveInFlight = {}
    /\ ProposeInFlight = {} /\ ConfirmInFlight = {} /\ SclaimInFlight = {}

GiftallInFlight == {t \in GiftallTasks : gfa[t].pc \notin {"idle", "done"}}
\* no operation at all is under way
Still == Quiet /\ GiftallInFlight = {}

\* the shop: purchases and coin grants
NextShop ==
    \/ \E t \in BuyTasks, chat \in Chats, u \in Buyers, n \in ItemArgs :
          BuyStart(t, chat, u, n)
    \/ \E t \in BuyTasks, s \in Samples :
          \E vs \in [1..SampleSize -> Variations] : BuySample(t, s, vs)
    \/ \E t \in BuyTasks : BuyFind(t)
    \/ \E t \in BuyTasks : BuyInc(t)
    \/ \E t \in BuyTasks : BuyPush(t)
    \/ \E t \in BuyTasks : BuyPop(t)
    \/ \E inv \in Users, u \in Buyers, a \in CoinAmounts : GiveCoins(inv, u, a)
    \/ Tick(SHOP_REFRESH_INTERVAL)

\* the shop with one operation at a time, the clock stepping to one second
\* before the refresh interval and by one second
NextShopSeq ==
    \/ /\ Quiet
       /\ \E t \in BuyTasks, chat \in Chats, u \in Buyers, n \in ItemNums :
             BuyStart(t, chat, u, n)
    \/ \E t \in BuyTasks, s \in Samples :
          \E vs \in [1..SampleSize -> Variations] : BuySample(t, s, vs)
    \/ \E t \in BuyTasks : BuyFind(t)
    \/ \E t \in BuyTasks : BuyInc(t)
    \/ \E t \in BuyTasks : BuyPush(t)
    \/ \E t \in BuyTasks : BuyPop(t)
    \/ /\ Quiet
       /\ \E inv \in Users, u \in Buyers, a \in CoinAmounts : GiveCoins(inv, u, a)
    \/ Tick(SHOP_REFRESH_INTERVAL - 1)
    \/ Tick(1)

\* the same, where a write of a purchase may fail
NextShopFail ==
    \/ NextShopSeq
    \/ \E t \in BuyTasks : BuyIncFails(t)
    \/ \E t \in BuyTasks : BuyPushFails(t)

\* the redeem codes: creation and redemptions
NextRedeem ==
    \/ \E t \in RedeemTasks, u \in Redeemers, code \in CodeNames : RedeemStart(t, u, code)
    \/ \E t \in RedeemTasks : RedeemInc(t)
    \/ \E t \in RedeemTasks : RedeemRecord(t)
    \/ /\ code_seq = 0
       /\ \E inv \in Users, code \in CodeNames, a \in CoinAmounts,
             m \in MaxUsesArgs, d \in DaysArgs : CreateCode(inv, code, a, m, d)
    \/ Tick(REDEEM_COOLDOWN_SECONDS)
    \/ Tick(SECONDS_PER_DAY)

\* the same with one operation at a time: nothing starts while a redemption is
\* under way
NextRedeemSeq ==
    \/ /\ Quiet
       /\ \E t \in RedeemTasks, u \in Users, code \in CodeNames : RedeemStart(t, u, code)
    \/ \E t \in RedeemTasks : RedeemInc(t)
    \/ \E t \in RedeemTasks : RedeemRecord(t)
    \/ /\ Quiet /\ code_seq = 0
       /\ \E inv \in Users, code \in CodeNames, a \in CoinAmounts,
             m \in MaxUsesArgs, d \in DaysArgs : CreateCode(inv, code, a, m, d)
    \/ Tick(REDEEM_COOLDOWN_SECONDS)
    \/ Tick(SECONDS_PER_DAY)

\* the same, where the update of a redemption may fail
NextRedeemFail ==
    \/ NextRedeemSeq
    \/ \E t \in RedeemTasks : RedeemIncFails(t)

\* redemptions of the code the registry holds, one at a time
NextRedeemKinds ==
    \/ /\ Quiet
       /\ \E t \in RedeemTasks, u \in Redeemers, code \in CodeNames :
             RedeemStart(t, u, code)
    \/ \E t \in RedeemTasks : RedeemInc(t)
    \/ \E t \in RedeemTasks : RedeemRecord(t)
    \/ Tick(REDEEM_COOLDOWN_SECONDS)
    \/ Tick(SECONDS_PER_DAY)

\* transfers of characters: direct grants, gifts, locks
NextGift ==
    \/ \E t \in GiveTasks, inv \in Users, c \in GiftChars, u \in Gifters :
          GiveStart(t, inv, c, u)
    \/ \E t \in GiveTasks : GivePush(t)
    \/ \E inv \in Users, c \in GiftChars : LockChar(inv, c)
    \/ \E inv \in Users, c \in GiftChars : UnlockChar(inv, c)
    \/ \E t \in ProposeTasks, s \in Gifters, r \in Gifters, c \in GiftChars :
          ProposeStart(t, s, r, c)
    \/ \E t \in ProposeTasks : ProposeFind(t)
    \/ \E t \in ConfirmTasks, p \in ProposeTasks, inv \in Gifters :
          ConfirmStart(t, p, inv)
    \/ \E t \in ConfirmTasks : ConfirmFind(t)
    \/ \E t \in ConfirmTasks : ConfirmPull(t)
    \/ \E t \in ConfirmTasks : ConfirmPush(t)
    \/ \E t \in ConfirmTasks : ConfirmFinish(t)

\* the same with one operation at a time
NextGiftSeq ==
    \/ /\ Quiet
       /\ \E t \in GiveTasks, inv \in Users, c \in GiftChars, u \in Gifters :
             GiveStart(t, inv, c, u)
    \/ \E t \in GiveTasks : GivePush(t)
    \/ /\ Quiet
       /\ \E inv \in Users, c \in GiftChars : LockChar(inv, c)
    \/ /\ Quiet
       /\ \E inv \in Users, c \in GiftChars : UnlockChar(inv, c)
    \/ /\ Quiet
       /\ \E t \in ProposeTasks, s \in Gifters, r \in Gifters, c \in GiftChars :
             ProposeStart(t, s, r, c)
    \/ \E t \in ProposeTasks : ProposeFind(t)
    \/ /\ Quiet
       /\ \E t \in ConfirmTasks, p \in ProposeTasks, inv \in Gifters :
             ConfirmStart(t, p, inv)
    \/ \E t \in ConfirmTasks : ConfirmFind(t)
    \/ \E t \in ConfirmTasks : ConfirmPull(t)
    \/ \E t \in ConfirmTasks : ConfirmPush(t)
    \/ \E t \in ConfirmTasks : ConfirmFinish(t)
    \/ /\ Quiet
       /\ \E t \in CancelTasks, p \in ProposeTasks, inv \in Gifters :
             GiftCancel(t, p, inv)

\* the same, where a write of a confirm may fail
NextGiftFail ==
    \/ NextGiftSeq
    \/ \E t \in ConfirmTasks : ConfirmPullFails(t)
    \/ \E t \in ConfirmTasks : ConfirmPushFails(t)

\* the channels that grant characters, with the locks, one operation at a time
NextGrant ==
    \/ /\ Quiet
       /\ \E t \in BuyTasks, chat \in Chats, u \in Buyers, n \in ItemNums :
             BuyStart(t, chat, u, n)
    \/ \E t \in BuyTasks, s \in Samples :
          \E vs \in [1..SampleSize -> Variations] : BuySample(t, s, vs)
    \/ \E t \in BuyTasks : BuyFind(t)
    \/ \E t \in BuyTasks : BuyInc(t)
    \/ \E t \in BuyTasks : BuyPush(t)
    \/ \E t \in BuyTasks : BuyPop(t)
    \/ /\ Quiet
       /\ \E inv \in Users, u \in Buyers, a \in CoinAmounts : GiveCoins(inv, u, a)
    \/ /\ Quiet
       /\ \E inv \in Users, c \in CharIds : LockChar(inv, c)
    \/ /\ Quiet
       /\ \E inv \in Users, c \in CharIds : UnlockChar(inv, c)
    \/ /\ Quiet
       /\ \E t \in SclaimTasks, chat \in Chats, u \in Buyers : SclaimStart(t, chat, u)
    \/ \E t \in SclaimTasks, c \in CharIds : SclaimSample(t, c)
    \/ \E t \in SclaimTasks : SclaimPush(t)
    \/ \E t \in SclaimTasks : SclaimFinish(t)

\* grants to the gifters by /give and /sclaim, one at a time, and /giftall at
\* any point between their steps
NextBulk ==
    \/ /\ Quiet
       /\ \E t \in GiveTasks, inv \in Users, c \in CharIds, u \in Gifters :
             GiveStart(t, inv, c, u)
    \/ \E t \in GiveTasks : GivePush(t)
    \/ /\ Quiet
       /\ \E t \in SclaimTasks, chat \in Chats, u \in Gifters : SclaimStart(t, chat, u)
    \/ \E t \in SclaimTasks, c \in CharIds : SclaimSample(t, c)
    \/ \E t \in SclaimTasks : SclaimPush(t)
    \/ \E t \in SclaimTasks : SclaimFinish(t)
    \/ \E t \in GiftallTasks, u \in Gifters, r \in Gifters : GiftallStart(t, u, r)
    \/ \E t \in GiftallTasks : GiftallFind(t)
    \/ \E t \in GiftallTasks : GiftallPush(t)
    \/ \E t \in GiftallTasks : GiftallClear(t)

\* the same with one operation at a time, /giftall included
NextBulkSeq ==
    \/ /\ Still
       /\ \E t \in GiveTasks, inv \in Users, c \in CharIds, u \in Gifters :
             GiveStart(t, inv, c, u)
    \/ \E t \in GiveTasks : GivePush(t)
    \/ /\ Still
       /\ \E t \in SclaimTasks, chat \in Chats, u \in Gifters : SclaimStart(t, chat, u)
    \/ \E t \in SclaimTasks, c \in CharIds : SclaimSample(t, c)
    \/ \E t \in SclaimTasks : SclaimPush(t)
    \/ \E t \in SclaimTasks : SclaimFinish(t)
    \/ /\ Still
       /\ \E t \in GiftallTasks, u \in Gifters, r \in Gifters : GiftallStart(t, u, r)
    \/ \E t \in GiftallTasks : GiftallFind(t)
    \/ \E t \in GiftallTasks : GiftallPush(t)
    \/ \E t \in GiftallTasks : GiftallClear(t)

UploadInFlight == {t \in UploadTasks : upl[t].pc \notin {"idle", "done"}}
DeleteInFlight == {t \in DeleteTasks : dlc[t].pc \notin {"idle", "done"}}
\* no operation and no edit of the catalog is under way
Calm == Still /\ UploadInFlight = {} /\ DeleteInFlight = {}

\* one grant through each channel (give, purchase, special claim), one gift and
\* the edits of the catalog, one operation at a time
NextCatalog ==
    \/ /\ Calm
       /\ \E t \in UploadTasks, inv \in Users, n \in UploadNames, r \in UploadRarities :
             UploadStart(t, inv, n, r)
    \/ \E t \in UploadTasks : UploadFind(t)
    \/ \E t \in UploadTasks : UploadInsert(t)
    \/ /\ Calm
       /\ \E t \in DeleteTasks, inv \in Users, c \in CharIds : DeleteStart(t, inv, c)
    \/ \E t \in DeleteTasks : DeleteFind(t)
    \/ \E t \in DeleteTasks : DeleteApply(t)
    \/ /\ Calm
       /\ \E inv \in Users, c \in CharIds, u \in Gifters : GiveStart(1, inv, c, u)
    \/ GivePush(1)
    \/ /\ Calm
       /\ \E chat \in Chats, u \in Gifters \ {OWNER_ID} : SclaimStart(1, chat, u)
    \/ \E c \in DOMAIN catalog : SclaimSample(1, c)
    \/ SclaimPush(1)
    \/ SclaimFinish(1)
    \/ /\ Calm
       /\ \E inv \in Users, a \in CoinAmounts : GiveCoins(inv, OWNER_ID, a)
    \/ /\ Calm
       /\ \E chat \in Chats : BuyStart(1, chat, OWNER_ID, 1)
    \/ \E all_chars \in Samples :
          \E vs \in [1..SampleSize -> {0 - VARIANCE}] : BuySample(1, all_chars, vs)
    \/ BuyFind(1)
    \/ BuyInc(1)
    \/ BuyPush(1)
    \/ BuyPop(1)
    \/ /\ Calm
       /\ \E s \in Gifters, r \in Gifters, c \in CharIds : ProposeStart(1, s, r, c)
    \/ ProposeFind(1)
    \/ /\ Calm
       /\ ConfirmStart(1, 1, prop[1].sender)
    \/ ConfirmFind(1)
    \/ ConfirmPull(1)
    \/ ConfirmPush(1)
    \/ ConfirmFinish(1)

\* a purchase, redemptions and a gift among accounts that hold coins and
\* characters, one operation at a time
NextFrame ==
    \/ /\ Calm
       /\ \E inv \in Users, u \in Buyers, a \in CoinAmounts : GiveCoins(inv, u, a)
    \/ /\ Calm
       /\ \E chat \in Chats, u \in Buyers : BuyStart(1, chat, u, 1)
    \/ \E all_chars \in Samples :
          \E vs \in [1..SampleSize -> {0 - VARIANCE}] : BuySample(1, all_chars, vs)
    \/ BuyFind(1)
    \/ BuyInc(1)
    \/ BuyPush(1)
    \/ BuyPop(1)
    \/ /\ Calm /\ code_seq = 0
       /\ \E inv \in Users, code \in CodeNames, a \in CoinAmounts :
             CreateCode(inv, code, a, 0, 0)
    \/ /\ Calm
       /\ \E u \in Redeemers, code \in CodeNames : RedeemStart(1, u, code)
    \/ RedeemInc(1)
    \/ RedeemRecord(1)
    \/ /\ Calm
       /\ \E inv \in Users, c \in GiftChars, u \in Gifters : GiveStart(1, inv, c, u)
    \/ GivePush(1)
    \/ /\ Calm
       /\ \E s \in Gifters, r \in Gifters, c \in GiftChars : ProposeStart(1, s, r, c)
    \/ ProposeFind(1)
    \/ /\ Calm
       /\ \E inv \in Gifters : ConfirmStart(1, 1, inv)
    \/ ConfirmFind(1)
    \/ ConfirmPull(1)
    \/ ConfirmPush(1)
    \/ ConfirmFinish(1)

\* codes created one after the other, each under a string drawn at random, and
\* redeemed, one operation at a time
NextCodes ==
    \/ /\ Quiet
       /\ \E inv \in Users, code \in DrawnCodes, a \in CoinAmounts, m \in MaxUsesArgs :
             CreateCode(inv, code, a, m, 0)
    \/ /\ Quiet
       /\ \E u \in Redeemers, code \in DrawnCodes : RedeemStart(1, u, code)
    \/ RedeemInc(1)
    \/ RedeemRecord(1)
    \/ Tick(REDEEM_COOLDOWN_SECONDS)

\* grants and gifts, one operation at a time, a write of a confirm failing or
\* not, with the clock stepping to one second before the end of the gift
\* cooldown and by parts of a second
NextGiftClock ==
    \/ /\ Quiet
       /\ \E t \in GiveTasks, inv \in Users, c \in CharIds : GiveStart(t, inv, c, OWNER_ID)
    \/ \E t \in GiveTasks : GivePush(t)
    \/ /\ Quiet
       /\ \E t \in ProposeTasks, s \in Gifters, r \in Gifters, c \in CharIds :
             ProposeStart(t, s, r, c)
    \/ \E t \in ProposeTasks : ProposeFind(t)
    \/ /\ Quiet
       /\ \E t \in ConfirmTasks, p \in ProposeTasks, inv \in Gifters :
             ConfirmStart(t, p, inv)
    \/ \E t \in ConfirmTasks : ConfirmFind(t)
    \/ \E t \in ConfirmTasks : ConfirmPull(t)
    \/ \E t \in ConfirmTasks : ConfirmPush(t)
    \/ \E t \in ConfirmTasks : ConfirmPushFails(t)
    \/ \E t \in ConfirmTasks : ConfirmFinish(t)
    \/ /\ Quiet
       /\ \E t \in CancelTasks, p \in ProposeTasks, inv \in Gifters :
             GiftCancel(t, p, inv)
    \/ Tick(GIFT_COOLDOWN_SECONDS - 1)
    \/ TickFraction

\* what the sample returns from the catalog of NListed characters: the
\* documents in the order of their ids, or the first two documents over and
\* over
ListingSamples ==
    {[i \in 1..SampleSize |-> catalog[i]],
     [i \in 1..SampleSize |-> catalog[((i - 1) % 2) + 1]]}
\* the values random.randint gives along one sample: the low end of the range
\* throughout, or the high end, the low end and 0 in turn
ListingVariations ==
    {[i \in 1..SampleSize |-> 0 - VARIANCE],
     [i \in 1..SampleSize |-> ((i % 3) - 1) * VARIANCE]}

\* the shop over a catalog of NListed characters: purchases, the refresh
\* button and the clock in any interleaving, coin grants between purchases
NextListing ==
    \/ \E t \in BuyTasks, chat \in Chats, u \in Buyers, n \in ItemNums :
          BuyStart(t, chat, u, n)
    \/ \E t \in BuyTasks, s \in ListingSamples, vs \in ListingVariations :
          BuySample(t, s, vs)
    \/ \E t \in BuyTasks : BuyFind(t)
    \/ \E t \in BuyTasks : BuyInc(t)
    \/ \E t \in BuyTasks : BuyPush(t)
    \/ \E t \in BuyTasks : BuyPop(t)
    \/ \E t \in RefreshTasks, chat \in Chats : RefreshStart(t, chat)
    \/ \E t \in RefreshTasks, s \in ListingSamples :
          RefreshSample(t, s, [i \in 1..SampleSize |-> 0 - VARIANCE])
    \/ /\ Quiet
       /\ \E inv \in Users, u \in Buyers, a \in CoinAmounts : GiveCoins(inv, u, a)
    \/ ticks = 0 /\ Tick(SHOP_REFRESH_INTERVAL)

\* special claims, the reset of a user's claim cooldown and the clock, any
\* interleaving
NextClaim ==
    \/ \E t \in SclaimTasks, chat \in Chats, u \in Gifters : SclaimStart(t, chat, u)
    \/ \E t \in SclaimTasks, c \in CharIds : SclaimSample(t, c)
    \/ \E t \in SclaimTasks : SclaimPush(t)
    \/ \E t \in SclaimTasks : SclaimFinish(t)
    \/ \E inv \in Users, u \in Gifters : ResetSclaim(inv, u)
    \/ Tick(CLAIM_COOLDOWN_HOURS * SECONDS_PER_HOUR)

\* every handler of the model, any interleaving
Next ==
    \/ NextListing \/ NextClaim
    \/ NextShop \/ NextRedeem \/ NextGift \/ NextGrant \/ NextBulk \/ NextCatalog
    \/ NextFrame \/ NextCodes \/ NextGiftClock
    \/ \E t \in SclaimTasks : SclaimNoChars(t)
    \/ \E t \in BuyTasks : BuyIncFails(t) \/ BuyPushFails(t)
    \/ \E t \in RedeemTasks : RedeemIncFails(t)
    \/ \E t \in ConfirmTasks : ConfirmPullFails(t) \/ ConfirmPushFails(t)
    \/ \E t \in CancelTasks, p \in ProposeTasks, inv \in Gifters : GiftCancel(t, p, inv)
    \/ Tick(GIFT_COOLDOWN_SECONDS)

Spec == Init /\ [][Next]_vars
SpecShop == Init /\ [][NextShop]_vars
SpecShopSeq == Init /\ [][NextShopSeq]_vars
SpecRedeem == Init /\ [][NextRedeem]_vars
SpecRedeemSeq == Init /\ [][NextRedeemSeq]_vars
SpecGift == Init /\ [][NextGift]_vars
SpecGiftSeq == Init /\ [][NextGiftSeq]_vars
SpecGrant == Init /\ [][NextGrant]_vars
SpecRedeemKinds == InitKinds /\ [][NextRedeemKinds]_vars
SpecShopFail == Init /\ [][NextShopFail]_vars
SpecGiftFail == Init /\ [][NextGiftFail]_vars
SpecBulk == Init /\ [][NextBulk]_vars
SpecCatalog == Init /\ [][NextCatalog]_vars
SpecFrame == Init /\ [][NextFrame]_vars
SpecCodes == Init /\ [][NextCodes]_vars
SpecGiftClock == Init /\ [][NextGiftClock]_vars
SpecBulkSeq == Init /\ [][NextBulkSeq]_vars
SpecListing == InitListing /\ [][NextListing]_vars
SpecRedeemFail == Init /\ [][NextRedeemFail]_vars
SpecClaim == Init /\ [][NextClaim]_vars

\* ----------------------------------------------------------------- claims

(* C1: under any interleaving of purchases and coin grants, several        *)
(* purchases of one buyer in flight included, every account's balance is   *)
(* >= 0 in every reachable state.  Checked under SpecShop.                 *)
C1_BalanceNonNegative == \A u \in Users : balance[u] >= 0

\* the purchase of task t has granted its character
Granted(t) ==
    \/ buy[t].pc = "pop"
    \/ buy[t].pc = "done" /\ buy[t].result \in {"ok", "Error"}

(* C2: an entry of a chat's listing is sold at most once per generation of *)
(* that listing: no two purchases are both charged and granted the same    *)
(* entry (same chat, same generation, same character).  Checked under      *)
(* SpecShop.                                                               *)
C2_SoldOnce ==
    \A t1, t2 \in BuyTasks :
        (/\ t1 # t2
         /\ Granted(t1) /\ Granted(t2)
         /\ buy[t1].chat = buy[t2].chat
         /\ buy[t1].gen = buy[t2].gen)
        => buy[t1].item.character.id # buy[t2].item.character.id

\* what code k has paid out to user u: recorded redemptions, and increments
\* applied whose task has not recorded them yet
PaidTasks(k) ==
    {t \in RedeemTasks : /\ rdm[t].pc = "record"
                         /\ rdm[t].code = k
                         /\ rdm[t].oid = redeem_codes[k].oid}
PaidTo(k, u) ==
    Count(redeem_codes[k].redeemed_by, u)
      + Cardinality({t \in PaidTasks(k) : rdm[t].user = u})

(* C3: no two redemptions of the same code by the same user both succeed:  *)
(* under any interleaving the user is paid the reward at most once and is  *)
(* at most once in redeemed_by.  Checked under SpecRedeem.                 *)
C3_NoDoubleRedeem ==
    \A k \in DOMAIN redeem_codes : \A u \in Users : PaidTo(k, u) <= 1

\* instances with id c over all accounts
TotalOwned(c) ==
    Cardinality(UNION {{<<u, i>> : i \in {j \in 1..Len(characters[u]) :
                                            characters[u][j].id = c}} : u \in Users})
\* instances with id c handed out by /give
GrantedOf(c) ==
    Cardinality({t \in GiveTasks : /\ giv[t].pc = "done"
                                   /\ giv[t].result = "ok"
                                   /\ giv[t].char.id = c})

(* C4: gifting never creates or destroys character instances: whenever no  *)
(* confirm is under way, the number of instances of each character id over *)
(* all accounts is the number that was granted.  Checked under SpecGift.   *)
C4_GiftConservesInstances ==
    \A c \in CharIds : ConfirmInFlight = {} => TotalOwned(c) = GrantedOf(c)

(* C5: gift round trip, one operation at a time: when a confirm has        *)
(* removed and appended, the sender who held k0 >= 1 instances of the      *)
(* character holds k0 - 1 and the recipient holds one more than before.    *)
(* Checked under SpecGiftSeq.                                              *)
C5_GiftRoundTrip ==
    \A t \in ConfirmTasks :
        cfm[t].pc = "finish" =>
            /\ CountId(characters[cfm[t].sender], cfm[t].char_id) = cfm[t].k0 - 1
            /\ CountId(characters[cfm[t].recipient], cfm[t].char_id) = cfm[t].r0 + 1

(* C6: lock race, one operation at a time: a confirm by the sender, who    *)
(* still owns the character, of a gift proposed while the character was    *)
(* unlocked and pressed while it is locked, ends with Locked.  Checked     *)
(* under SpecGiftSeq.                                                      *)
C6_LockRace ==
    \A t \in ConfirmTasks :
        (/\ cfm[t].pc = "done"
         /\ cfm[t].lockedAtStart
         /\ ~prop[cfm[t].p].lockedAtEmit
         /\ cfm[t].result \notin {"Unauthorized", "SenderNotFound", "NotFound"})
        => cfm[t].result = "Locked"

\* the users code k has paid are pairwise distinct
DistinctPayees(k) == \A u \in Users : PaidTo(k, u) <= 1

(* C7: for a code with max_uses = m, concurrent redemptions by distinct    *)
(* users never bring the number of rewards paid out (recorded in           *)
(* redeemed_by or about to be) above m.  Checked under SpecRedeem.         *)
C7_MaxUsesRespected ==
    \A k \in DOMAIN redeem_codes :
        (redeem_codes[k].max_uses # 0 /\ DistinctPayees(k))
        => Len(redeem_codes[k].redeemed_by) + Cardinality(PaidTasks(k))
              <= redeem_codes[k].max_uses

(* C8: a purchase whose buyer holds less than the price at the moment the  *)
(* decrement is applied ends with InsufficientFunds and changes neither    *)
(* the balance, the characters nor the listing.  Checked under SpecShop.   *)
C8_InsufficientFundsNoMutation ==
    [][\A t \in BuyTasks :
          (/\ buy[t].pc = "inc"
           /\ buy'[t].pc # "inc"
           /\ ReadBalance(buy[t].user) < buy[t].item.price)
          => /\ buy'[t].pc = "done"
             /\ buy'[t].result = "InsufficientFunds"
             /\ balance' = balance
             /\ characters' = characters
             /\ shop_cache' = shop_cache]_vars

\* u's last recorded redemption is less than 60 s old
C9_Cooling(u) ==
    /\ u \in DOMAIN user_redeem_history
    /\ Len(user_redeem_history[u]) > 0
    /\ now - user_redeem_history[u][Len(user_redeem_history[u])]
          < REDEEM_COOLDOWN_SECONDS
\* code k is in the registry, has a limit of uses and is not past its expiry
C9_Limited(k) ==
    /\ k \in DOMAIN redeem_codes
    /\ redeem_codes[k].max_uses # 0
    /\ redeem_codes[k].expires = 0 \/ now <= redeem_codes[k].expires
C9_Members(k) ==
    {redeem_codes[k].redeemed_by[i] : i \in 1..Len(redeem_codes[k].redeemed_by)}
\* task t starts in this step
C9_Starts(t) == rdm[t].pc \in {"idle", "done"} /\ rdm'[t] # rdm[t]
C9_NoEffect == balance' = balance /\ redeem_codes' = redeem_codes

(* C9 as stated: with one redemption at a time, a redeem by a user who is  *)
(* already in redeemed_by is rejected with AlreadyRedeemed, whatever the   *)
(* time since that user's first redemption.  Checked under SpecRedeemSeq.  *)
C9_AlreadyRedeemedAtAnyTime ==
    [][\A t \in RedeemTasks :
          (/\ C9_Starts(t)
           /\ C9_Limited(rdm'[t].code)
           /\ rdm'[t].user \in C9_Members(rdm'[t].code))
          => rdm'[t].result = "AlreadyRedeemed" /\ C9_NoEffect]_vars

(* C9 amended: with one redemption at a time, on a code with reward r and  *)
(* a limit of m uses that is not expired:  a user who is not in            *)
(* redeemed_by and not in the redeem cooldown is accepted while fewer than *)
(* m users have redeemed, is then paid exactly r and appended to           *)
(* redeemed_by, and is rejected with MaxUsesReached and no effect once m   *)
(* users have redeemed;  a user who is in redeemed_by is rejected with no  *)
(* effect, with AlreadyRedeemed when 60 s or more have passed since that   *)
(* user's last redemption and with the cooldown notice before that.        *)
(* Checked under SpecRedeemSeq.                                            *)
C9_SequentialRedeem ==
    [][\A t \in RedeemTasks :
          LET u == rdm'[t].user
              k == rdm'[t].code
          IN  /\ (C9_Starts(t) /\ C9_Limited(k)) =>
                    LET n == Cardinality(C9_Members(k))
                        m == redeem_codes[k].max_uses
                    IN  /\ u \in C9_Members(k) =>
                              /\ rdm'[t].pc = "done"
                              /\ rdm'[t].result = IF C9_Cooling(u) THEN "Cooldown"
                                                  ELSE "AlreadyRedeemed"
                              /\ C9_NoEffect
                        /\ (u \notin C9_Members(k) /\ ~C9_Cooling(u) /\ n >= m) =>
                              /\ rdm'[t].pc = "done"
                              /\ rdm'[t].result = "MaxUsesReached"
                              /\ C9_NoEffect
                        /\ (u \notin C9_Members(k) /\ ~C9_Cooling(u) /\ n < m) =>
                              /\ rdm'[t].pc = "inc"
                              /\ C9_NoEffect
              /\ (rdm[t].pc = "inc" /\ rdm'[t].pc = "record") =>
                    /\ balance' = [balance EXCEPT ![u] =
                                      @ + redeem_codes[k].reward_amount]
                    /\ redeem_codes' = redeem_codes
              /\ (rdm[t].pc = "record" /\ rdm'[t].pc = "done") =>
                    /\ rdm'[t].result = "ok"
                    /\ balance' = balance
                    /\ redeem_codes' = [redeem_codes EXCEPT ![k].redeemed_by =
                                           Append(@, u)]]_vars

\* C9's case: on a code limited to two uses, a user who has redeemed it and
\* holds its reward has tried again and been told AlreadyRedeemed
C9_Witness ==
    \E t \in RedeemTasks :
        /\ rdm[t].pc = "done"
        /\ rdm[t].result = "AlreadyRedeemed"
        /\ rdm[t].code \in DOMAIN redeem_codes
        /\ redeem_codes[rdm[t].code].max_uses = 2
        /\ rdm[t].user \in C9_Members(rdm[t].code)
        /\ balance[rdm[t].user] = redeem_codes[rdm[t].code].reward_amount

(* C10: a stale proposal token moves nothing: a confirm whose removal      *)
(* finds no instance of the character in the sender's collection is        *)
(* rejected with NotFound and sends no append.  Checked under SpecGift.    *)
C10_StaleTokenRejected ==
    [][\A t \in ConfirmTasks :
          (/\ cfm[t].pc = "pull"
           /\ cfm'[t].pc # "pull"
           /\ CountId(characters[cfm[t].sender], cfm[t].char_id) = 0)
          => /\ cfm'[t].pc = "done"
             /\ cfm'[t].result = "NotFound"
             /\ characters' = characters]_vars

\* task t starts in this step
C11_Pressed(t) == cfm[t].pc = "idle" /\ cfm'[t].pc # "idle"

(* C11: a gift confirm pressed by a user other than the sender encoded in  *)
(* the button ends at once with Unauthorized and changes no account, no    *)
(* collection and no cooldown, whatever else is under way.  Checked under  *)
(* SpecGift.                                                               *)
C11_ConfirmBySenderOnly ==
    [][\A t \in ConfirmTasks :
          (C11_Pressed(t) /\ cfm'[t].inv # cfm'[t].sender)
          => /\ cfm'[t].pc = "done"
             /\ cfm'[t].result = "Unauthorized"
             /\ registered' = registered
             /\ balance' = balance
             /\ characters' = characters
             /\ gift_cooldowns' = gift_cooldowns]_vars

\* C11's case: the recipient has pressed the confirm button of a gift whose
\* sender holds the character, and was turned away
C11_Witness ==
    \E t \in ConfirmTasks :
        /\ cfm[t].pc = "done"
        /\ cfm[t].result = "Unauthorized"
        /\ cfm[t].inv = cfm[t].recipient
        /\ cfm[t].inv # cfm[t].sender
        /\ CountId(characters[cfm[t].sender], cfm[t].char_id) >= 1
        /\ CountId(characters[cfm[t].recipient], cfm[t].char_id) = 0

\* u's gift cooldown is armed and not over
C12_Cooling(u) ==
    u \in DOMAIN gift_cooldowns /\ gift_cooldowns[u] > now * SubSeconds + frac

(* C12: the gift cooldown is checked again at confirm: with one operation  *)
(* at a time, a confirm pressed while the sender's gift cooldown is active *)
(* removes no instance from the sender (it ends with CooldownActive before *)
(* the removal is sent).  Checked under SpecGiftSeq, where the cooldown    *)
(* that holds when the button is pressed still holds at the removal; the   *)
(* buttons looked at are those no earlier confirm has used.                *)
C12_CooldownRecheckedAtConfirm ==
    [][\A t \in ConfirmTasks :
          (/\ cfm[t].pc = "pull"
           /\ cfm'[t].pc # "pull"
           /\ \A s \in ConfirmTasks \ {t} : cfm[s].p # cfm[t].p)
          => ~C12_Cooling(cfm[t].sender)]_vars

(* C13: a direct grant of a character that is globally locked when the     *)
(* grant is applied fails with Locked and leaves every collection as it    *)
(* was.  Checked under SpecGiftSeq.                                        *)
C13_GiveRefusesLocked ==
    [][\A t \in GiveTasks :
          (/\ giv[t].pc = "push"
           /\ giv'[t].pc # "push"
           /\ giv[t].char.id \in locked)
          => /\ giv'[t].result = "Locked"
             /\ characters' = characters]_vars

(* C14: while a character is globally locked no channel grants it: with    *)
(* one operation at a time, a purchase whose character is locked when the  *)
(* grant is applied, and a special claim that has drawn a locked           *)
(* character, add nothing to any collection.  Checked under SpecGrant.     *)
C14_LockedNeverGranted ==
    [][/\ \A t \in BuyTasks :
             (/\ buy[t].pc = "push"
              /\ buy'[t].pc # "push"
              /\ buy[t].item.character.id \in locked)
             => characters' = characters
       /\ \A t \in SclaimTasks :
             (/\ scl[t].pc = "push"
              /\ scl'[t].pc # "push"
              /\ scl[t].char.id \in locked)
             => characters' = characters]_vars

\* task t takes a redeem update in this step
C15_Starts(t) == rdm[t].pc \in {"idle", "done"} /\ rdm'[t] # rdm[t]

(* C15: expiry boundary: a redeem of a code in the registry whose expiry   *)
(* is set and earlier than now is rejected with Expired, with no balance   *)
(* change and with the code's redeemed_by as it was, whether or not the    *)
(* code was ever used and whatever its max_uses.  Checked under            *)
(* SpecRedeemSeq.                                                          *)
C15_ExpiredRejected ==
    [][\A t \in RedeemTasks :
          LET k == rdm'[t].code
          IN  (/\ C15_Starts(t)
               /\ k \in DOMAIN redeem_codes
               /\ redeem_codes[k].expires # 0
               /\ redeem_codes[k].expires < now)
              => /\ rdm'[t].pc = "done"
                 /\ rdm'[t].result = "Expired"
                 /\ balance' = balance
                 /\ k \in DOMAIN redeem_codes'
                 /\ redeem_codes'[k].redeemed_by = redeem_codes[k].redeemed_by]_vars

(* C16: a code is mutated by successful redemptions only and is never      *)
(* deleted by a redeem: every redeem attempt that is rejected leaves the   *)
(* code registry exactly as it was.  Checked under SpecRedeemSeq.          *)
C16_RejectedRedeemKeepsRegistry ==
    [][\A t \in RedeemTasks :
          (/\ rdm[t].pc \in {"idle", "done"}
           /\ rdm'[t] # rdm[t]
           /\ rdm'[t].pc = "done")
          => redeem_codes' = redeem_codes]_vars

\* code k is in the registry and its reward is not coins
C17_NotCoins(k) == k \in DOMAIN redeem_codes /\ redeem_codes[k].reward_type # "coins"
\* nothing a redemption writes has changed
C17_NoMutation ==
    /\ balance' = balance
    /\ registered' = registered
    /\ user_redeem_history' = user_redeem_history
\* the redeem of k by u passes every check made before the reward is applied
C17_PassesChecks(k, u) ==
    /\ ~C9_Cooling(u)
    /\ redeem_codes[k].expires = 0 \/ now <= redeem_codes[k].expires
    /\ u \notin C9_Members(k)
    /\ \/ redeem_codes[k].max_uses = 0
       \/ Len(redeem_codes[k].redeemed_by) < redeem_codes[k].max_uses

C18_CancelBySenderOnly ==
    [][\A t \in CancelTasks :
          (cnl[t].pc = "idle" /\ cnl'[t].pc # "idle")
          => /\ cnl'[t].pc = "done"
             /\ cnl'[t].sender = prop[cnl'[t].p].sender
             /\ cnl'[t].result = IF cnl'[t].inv = cnl'[t].sender THEN "cancelled"
                                 ELSE "Unauthorized"
             /\ registered' = registered
             /\ balance' = balance
             /\ characters' = characters
             /\ gift_cooldowns' = gift_cooldowns]_vars

\* C18's case: the recipient of a proposed gift has pressed cancel and was
\* turned away, the sender still holding the character
C18_Witness ==
    \E t \in CancelTasks :
        /\ cnl[t].pc = "done"
        /\ cnl[t].result = "Unauthorized"
        /\ cnl[t].inv = prop[cnl[t].p].recipient
        /\ cnl[t].inv # cnl[t].sender
        /\ CountId(characters[cnl[t].sender], prop[cnl[t].p].char_id) >= 1

\* task t has been handed a listing by get_shop_items and has taken its item
C19_Handed(t) == buy[t].pc \notin {"idle", "sample"} /\ buy[t].gen # 0

(* C19: regeneration of a chat's listing is single-writer: callers of      *)
(* get_shop_items for the same chat at the same time, against a missing or *)
(* expired entry, are all handed the one listing that generation cached:   *)
(* no two of them hold listings of different generations.  Checked under   *)
(* SpecShop.                                                               *)
C19_SingleGeneration ==
    \A t1, t2 \in BuyTasks :
        (/\ C19_Handed(t1) /\ C19_Handed(t2)
         /\ buy[t1].chat = buy[t2].chat
         /\ buy[t1].t0 = buy[t2].t0)
        => buy[t1].gen = buy[t2].gen

\* the entry of chat c is cached and younger than the refresh interval
C20_Young(c) ==
    /\ c \in DOMAIN shop_cache
    /\ now - shop_cache[c].timestamp < SHOP_REFRESH_INTERVAL
\* task t calls get_shop_items in this step / gets its sample back in this step
C20_Calls(t) == buy[t].pc = "idle" /\ buy'[t].pc # "idle"
C20_Regenerates(t) == buy[t].pc = "sample" /\ buy'[t].pc # "sample"
\* the item task t goes on with is the one the listing shows at its number
C20_HandedFrom(t, items) ==
    IF buy'[t].num <= Len(items)
    THEN buy'[t].pc = "find" /\ buy'[t].item = items[buy'[t].num]
    ELSE buy'[t].pc = "done" /\ buy'[t].result = "InvalidItem"

C21_Verdict(t) == buy[t].pc \in {"idle", "sample"} /\ buy'[t].pc \notin {"idle", "sample"}
\* the chat's listing as get_shop_items leaves it in this step
C21_Listing(chat) ==
    IF chat \in DOMAIN shop_cache' THEN shop_cache'[chat].items ELSE <<>>

(* C21: a purchase whose item number is below 1 or above the current       *)
(* length of the chat's listing is rejected as an invalid item, sends no   *)
(* decrement and no append, and removes nothing from the listing: no       *)
(* balance and no collection changes, and the cache changes only when      *)
(* get_shop_items has regenerated it for this call.  Checked under         *)
(* SpecShop.                                                               *)
C21_OutOfBoundsRejected ==
    [][\A t \in BuyTasks :
          (/\ C21_Verdict(t)
           /\ \/ buy'[t].num < 1
              \/ buy'[t].num > Len(C21_Listing(buy'[t].chat)))
          => /\ buy'[t].pc = "done"
             /\ buy'[t].result \in {"InvalidNumber", "InvalidItem"}
             /\ balance' = balance
             /\ registered' = registered
             /\ characters' = characters
             /\ shop_gen' = shop_gen => shop_cache' = shop_cache
             /\ shop_gen' # shop_gen => buy[t].pc = "sample"]_vars

\* C21's case: number 2 was asked for when the listing had shrunk to one entry
\* because the other was sold, and the purchase was turned away
C21_Witness ==
    \E t, s \in BuyTasks :
        /\ buy[t].pc = "done" /\ buy[t].result = "InvalidItem" /\ buy[t].num = 2
        /\ buy[s].pc = "done" /\ buy[s].result = "ok"
        /\ buy[s].chat = buy[t].chat
        /\ buy[t].chat \in DOMAIN shop_cache
        /\ Len(shop_cache[buy[t].chat].items) = 1
        /\ balance[buy[t].user] >= 0

(* C22: purchase compensation: with one operation at a time, when the      *)
(* append of the purchased character fails after the decrement was         *)
(* applied, the handler ends with StorageError having put the price back:  *)
(* the buyer's balance is again what it was before the purchase.  Checked  *)
(* under SpecShopFail.                                                     *)
C22_PurchaseCompensated ==
    [][\A t \in BuyTasks :
          (buy[t].pc = "push" /\ buy'[t].pc = "done" /\ buy'[t].result = "StorageError")
          => balance' = [balance EXCEPT ![buy[t].user] = @ + buy[t].item.price]]_vars

(* C23: gift compensation: with one operation at a time, when the append   *)
(* to the recipient fails after the removal from the sender was applied,   *)
(* the handler ends with StorageError having put the instance back: the    *)
(* sender holds as many instances of the character as before the confirm.  *)
(* Checked under SpecGiftFail.                                             *)
C23_GiftCompensated ==
    [][\A t \in ConfirmTasks :
          (cfm[t].pc = "push" /\ cfm'[t].pc = "done" /\ cfm'[t].result = "StorageError")
          => CountId(characters'[cfm[t].sender], cfm[t].char_id) = cfm[t].k0]_vars

(* C24: giftall with nothing else interleaved moves the whole collection:  *)
(* the list it reads is the source's whole collection, and when it ends    *)
(* the destination holds what it held before followed by that list,        *)
(* duplicates included and in order, and the source holds nothing; a       *)
(* giftall whose destination is the source's own account loses nothing.    *)
(* Checked under SpecBulkSeq.                                              *)
C24_GiftallMovesAll ==
    [][\A t \in GiftallTasks :
          /\ (gfa[t].pc = "find" /\ gfa'[t].pc = "push")
                => gfa'[t].characters = characters[gfa[t].user]
          /\ (gfa[t].pc = "clear" /\ gfa'[t].pc = "done")
                => /\ gfa'[t].result = "ok"
                   /\ characters'[gfa[t].recipient] =
                         IF gfa[t].recipient = gfa[t].user THEN gfa[t].d0
                         ELSE gfa[t].d0 \o gfa[t].characters
                   /\ gfa[t].recipient # gfa[t].user => characters'[gfa[t].user] = <<>>
                   /\ \A u \in Users \ {gfa[t].user, gfa[t].recipient} :
                         characters'[u] = characters[u]]_vars

\* instances with id c handed out by /sclaim
C25_Claimed(c) ==
    Cardinality({t \in SclaimTasks : /\ scl[t].pc \in {"finish", "done"}
                                     /\ scl[t].result \in {"none", "ok"}
                                     /\ scl[t].char.id = c})

(* C25: giftall neither destroys nor duplicates instances, whatever is     *)
(* interleaved with it: whenever no operation is under way and the giftall *)
(* that ran went to another account, the number of instances of each       *)
(* character over all accounts is the number granted by give and special   *)
(* claim.  Checked under SpecBulk.                                         *)
C25_GiftallConservesInstances ==
    (/\ Still
     /\ \A t \in GiftallTasks : gfa[t].recipient # gfa[t].user \/ gfa[t].pc = "idle")
    => \A c \in CharIds : TotalOwned(c) = GrantedOf(c) + C25_Claimed(c)

\* the collection of u changes in this step only by an append at its end or by
\* the removal of the instances of one id: no instance kept is altered
C26_KeptAsIs(u) ==
    \/ characters'[u] = characters[u]
    \/ /\ Len(characters'[u]) = Len(characters[u]) + 1
       /\ SubSeq(characters'[u], 1, Len(characters[u])) = characters[u]
    \/ \E i \in 1..Len(characters[u]) :
          characters'[u] = PullId(characters[u], characters[u][i].id)

(* C26: owned instances are snapshots: a step that inserts into or deletes *)
(* from the catalog changes no collection, and no step of any handler      *)
(* alters an instance that stays in a collection: id, name and rarity of   *)
(* every owned instance stay what they were when it was granted.  Checked  *)
(* under SpecCatalog.                                                      *)
C26_SnapshotsImmutable ==
    [][/\ catalog' # catalog => characters' = characters
       /\ \A u \in Users : C26_KeptAsIs(u)]_vars

\* C26's case: an account holds an instance whose catalog entry was deleted
\* and whose id now names another character; the instance still bears the
\* name and rarity it was granted with
C26_Witness ==
    \E u \in Users : \E i \in 1..Len(characters[u]) :
        LET ch == characters[u][i]
        IN  /\ ch.id \in DOMAIN catalog
            /\ ch.id \in DOMAIN Catalog0
            /\ ch = char_to_add(Catalog0[ch.id])
            /\ catalog[ch.id].name # ch.name
            /\ catalog[ch.id].rarity # ch.rarity

\* task t of the tasks ts takes a step
C27_Steps(ts, t) == ts'[t] # ts[t]
\* the balance and the collection of every account other than us are unchanged
C27_OthersUntouched(us) ==
    \A v \in Users \ us :
        /\ balance'[v] = balance[v]
        /\ characters'[v] = characters[v]
        /\ (v \in registered') = (v \in registered)

(* C27: side effects stay within the named accounts: every step of a       *)
(* purchase or of a redeem by user u leaves the balance and the collection *)
(* of every other user as they were, and every step of a gift confirm      *)
(* changes no balance and no collection but those of the sender and the    *)
(* recipient encoded in the button.  Checked under SpecFrame.              *)
C27_NoCrossAccountEffects ==
    [][/\ \A t \in BuyTasks : C27_Steps(buy, t) => C27_OthersUntouched({buy'[t].user})
       /\ \A t \in RedeemTasks : C27_Steps(rdm, t) => C27_OthersUntouched({rdm'[t].user})
       /\ \A t \in ConfirmTasks :
             C27_Steps(cfm, t)
             => /\ balance' = balance
                /\ C27_OthersUntouched({cfm'[t].sender, cfm'[t].recipient})]_vars

\* C27's case: a purchase was paid, a code was redeemed and a gift was moved
\* while an account that took no part in the purchase holds coins and a
\* character
C27_Witness ==
    /\ buy[1].pc = "done" /\ buy[1].result = "ok"
    /\ rdm[1].pc = "done" /\ rdm[1].result = "ok"
    /\ cfm[1].pc = "done" /\ cfm[1].result = "ok"
    /\ \E v \in Users \ {buy[1].user} : balance[v] > 0 /\ characters[v] # <<>>

\* a code is created in this step
C28_Creates == code_seq' # code_seq

(* C28: create_code returns a string that is not in the registry: creating *)
(* a code adds one entry and leaves the reward, the limits and the         *)
(* redeemed_by of every code already there as they were.  Checked under    *)
(* SpecCodes.                                                              *)
C28_CreateKeepsExistingCodes ==
    [][C28_Creates =>
          /\ \A k \in DOMAIN redeem_codes :
                k \in DOMAIN redeem_codes' /\ redeem_codes'[k] = redeem_codes[k]
          /\ Cardinality(DOMAIN redeem_codes') = Cardinality(DOMAIN redeem_codes) + 1]_vars

\* the gift cooldown of u has been armed and its end is still ahead
C29_Before(u) ==
    u \in DOMAIN gift_cooldowns /\ now * SubSeconds + frac < gift_cooldowns[u]
\* task t takes a /gift update in this step
C29_Proposes(t) == prop[t].pc = "idle" /\ prop'[t].pc # "idle"

(* C29: the gift cooldown is armed by a successful confirm and by nothing  *)
(* else: the step that ends a confirm with success sets the sender's entry *)
(* to the time of that step plus 300 s, no other step (a rejected or       *)
(* failed confirm, a cancel, a propose) changes an entry, and every        *)
(* propose made by the sender before that time is rejected with            *)
(* CooldownActive and emits no token.  Checked under SpecGiftClock.        *)
C29_CooldownArmedBySuccess ==
    [][/\ \A t \in ConfirmTasks :
             (cfm[t].pc # "done" /\ cfm'[t].pc = "done" /\ cfm'[t].result = "ok")
             => gift_cooldowns' =
                   Put(gift_cooldowns, cfm[t].sender,
                       (now + GIFT_COOLDOWN_SECONDS) * SubSeconds + frac)
       /\ gift_cooldowns' # gift_cooldowns
             => \E t \in ConfirmTasks :
                   cfm[t].pc # "done" /\ cfm'[t].pc = "done" /\ cfm'[t].result = "ok"
       /\ \A t \in ProposeTasks :
             (C29_Proposes(t) /\ C29_Before(prop'[t].sender))
             => /\ prop'[t].pc = "done"
                /\ prop'[t].result = "CooldownActive"]_vars

\* a token is emitted by task t in this step
C30_Emits(t) == prop'[t].result = "token" /\ prop[t].result # "token"

(* C30: a propose emits its token only when the sender's gift cooldown is  *)
(* not active, the recipient is not the sender and the sender's document   *)
(* holds at least one instance of the character; the token encodes the     *)
(* sender, the recipient and the character of the command.  Checked under  *)
(* SpecGiftClock, where a cooldown that is active when the token goes out  *)
(* was active when the command was taken.                                  *)
C30_TokenOnlyWhenValid ==
    [][\A t \in ProposeTasks :
          C30_Emits(t)
          => /\ prop[t].pc = "find"
             /\ prop'[t].sender = prop[t].sender
             /\ prop'[t].recipient = prop[t].recipient
             /\ prop'[t].char_id = prop[t].char_id
             /\ prop[t].recipient # prop[t].sender
             /\ CountId(characters[prop[t].sender], prop[t].char_id) >= 1
             /\ ~(/\ prop[t].sender \in DOMAIN gift_cooldowns
                  /\ gift_cooldowns[prop[t].sender] > now * SubSeconds + frac)]_vars

\* the first of the four checks that applies to a redeem of code k by u, in
\* the order NotFound, Expired, AlreadyRedeemed, MaxUsesReached
C31_First(u, k) ==
    IF k \notin DOMAIN redeem_codes THEN "NotFound"
    ELSE IF redeem_codes[k].expires # 0 /\ now > redeem_codes[k].expires THEN "Expired"
    ELSE IF u \in C9_Members(k) THEN "AlreadyRedeemed"
    ELSE IF /\ redeem_codes[k].max_uses # 0
            /\ Len(redeem_codes[k].redeemed_by) >= redeem_codes[k].max_uses
         THEN "MaxUsesReached"
    ELSE "none"
\* task t takes a redeem update in this step
C31_Starts(t) == rdm[t].pc \in {"idle", "done"} /\ rdm'[t] # rdm[t]

(* C31 as stated: every redeem reports the first of NotFound, Expired,     *)
(* AlreadyRedeemed, MaxUsesReached that applies.  Checked under            *)
(* SpecRedeem.                                                             *)
C31_FixedOrder ==
    [][\A t \in RedeemTasks :
          (C31_Starts(t) /\ C31_First(rdm'[t].user, rdm'[t].code) # "none")
          => /\ rdm'[t].pc = "done"
             /\ rdm'[t].result = C31_First(rdm'[t].user, rdm'[t].code)]_vars

(* C31 amended: a redeem by a user whose last redemption is less than 60 s *)
(* old reports the cooldown notice, whatever the code; every other redeem  *)
(* reports the first of NotFound, Expired, AlreadyRedeemed, MaxUsesReached *)
(* that applies, so that a member of redeemed_by of a code at max_uses     *)
(* gets AlreadyRedeemed and a member of redeemed_by of an expired code     *)
(* gets Expired.  Checked under SpecRedeem.                                *)
C31_FixedOrderAfterCooldown ==
    [][\A t \in RedeemTasks :
          C31_Starts(t)
          => /\ C9_Cooling(rdm'[t].user)
                => rdm'[t].pc = "done" /\ rdm'[t].result = "Cooldown"
             /\ (/\ ~C9_Cooling(rdm'[t].user)
                 /\ C31_First(rdm'[t].user, rdm'[t].code) # "none")
                => /\ rdm'[t].pc = "done"
                   /\ rdm'[t].result = C31_First(rdm'[t].user, rdm'[t].code)]_vars

\* C31's case: a member of redeemed_by of a code that has reached max_uses
\* has redeemed again and been told AlreadyRedeemed
C31_Witness ==
    \E t \in RedeemTasks :
        /\ rdm[t].pc = "done"
        /\ rdm[t].result = "AlreadyRedeemed"
        /\ rdm[t].code \in DOMAIN redeem_codes
        /\ redeem_codes[rdm[t].code].max_uses # 0
        /\ Len(redeem_codes[rdm[t].code].redeemed_by)
              >= redeem_codes[rdm[t].code].max_uses
        /\ rdm[t].user \in C9_Members(rdm[t].code)

\* the cached listing of every chat holds pairwise distinct character ids and
\* at most MAX_SHOP_ITEMS items
C32_ListingOK ==
    \A chat \in DOMAIN shop_cache :
        LET items == shop_cache[chat].items
        IN  /\ Len(items) <= MAX_SHOP_ITEMS
            /\ \A i, j \in 1..Len(items) :
                  i # j => items[i].character.id # items[j].character.id

(* C32: in every reachable state each cached listing holds pairwise        *)
(* distinct character ids and at most MAX_SHOP_ITEMS items, and between    *)
(* two regenerations a listing changes only by losing one entry at a time: *)
(* no step but the one that caches a regenerated listing adds or replaces  *)
(* an entry.  Checked under SpecListing.                                   *)
C32_ListingDistinctBounded ==
    /\ C32_ListingOK
    /\ [][/\ C32_ListingOK'
          /\ \A chat \in Chats :
                (chat \in DOMAIN shop_cache' /\ shop_gen'[chat] = shop_gen[chat])
                => /\ chat \in DOMAIN shop_cache
                   /\ shop_cache'[chat].timestamp = shop_cache[chat].timestamp
                   /\ \/ shop_cache'[chat].items = shop_cache[chat].items
                      \/ \E i \in 1..Len(shop_cache[chat].items) :
                            shop_cache'[chat].items =
                               RemoveAt(shop_cache[chat].items, i)]_vars

\* C32's case: a listing generated with MAX_SHOP_ITEMS entries out of a larger
\* catalog has lost one of them to a purchase that succeeded
C32_Witness ==
    \E chat \in DOMAIN shop_cache, t \in BuyTasks :
        /\ Cardinality(DOMAIN catalog) > MAX_SHOP_ITEMS
        /\ Len(shop_cache[chat].items) = MAX_SHOP_ITEMS - 1
        /\ buy[t].pc = "done"
        /\ buy[t].result = "ok"
        /\ buy[t].chat = chat
        /\ buy[t].gen = shop_gen[chat]

\* the price of a listing entry is max(MIN_PRICE, rarity * BASE_MULTIPLIER + v)
\* for some v in -VARIANCE..VARIANCE, rarity being the parsed tier of its character
C33_PriceOK(item) ==
    /\ item.rarity \in 1..MAX_RARITY
    /\ item.rarity = IF item.character.rarity \in 1..MAX_RARITY
                     THEN item.character.rarity ELSE 1
    /\ \/ item.price - item.rarity * BASE_MULTIPLIER \in (0 - VARIANCE)..VARIANCE
       \/ item.price = MIN_PRICE /\ item.rarity * BASE_MULTIPLIER - VARIANCE <= MIN_PRICE
    /\ item.price >= MIN_PRICE
    /\ item.price - item.rarity * BASE_MULTIPLIER <= VARIANCE
    /\ item.rarity * BASE_MULTIPLIER - item.price <= VARIANCE

(* C33: every price of a cached listing is max(MIN_PRICE, rarity *         *)
(* BASE_MULTIPLIER + v) with -VARIANCE <= v <= VARIANCE, hence at least    *)
(* MIN_PRICE and within VARIANCE of rarity * BASE_MULTIPLIER; the entry a  *)
(* purchase selects is the entry of the cached listing at its index, and   *)
(* the decrement sent for the purchase is exactly that entry's price.      *)
(* Checked under SpecListing.                                              *)
C33_PriceFormula ==
    /\ \A chat \in DOMAIN shop_cache :
          \A i \in 1..Len(shop_cache[chat].items) :
             C33_PriceOK(shop_cache[chat].items[i])
    /\ [][/\ \A chat \in DOMAIN shop_cache' :
                \A i \in 1..Len(shop_cache'[chat].items) :
                   C33_PriceOK(shop_cache'[chat].items[i])
          /\ \A t \in BuyTasks :
                /\ (buy[t].pc # "find" /\ buy'[t].pc = "find")
                   => /\ buy'[t].chat \in DOMAIN shop_cache'
                      /\ buy'[t].num \in 1..Len(shop_cache'[buy'[t].chat].items)
                      /\ buy'[t].item = shop_cache'[buy'[t].chat].items[buy'[t].num]
                /\ (buy[t].pc = "inc" /\ buy'[t].pc = "push")
                   => /\ buy'[t].item = buy[t].item
                      /\ balance' = [balance EXCEPT ![buy[t].user] =
                                        @ - buy[t].item.price]]_vars

\* C33's case: a buyer granted 1000 coins has been charged the price of the
\* entry bought, which is at the low end of the range of its rarity
C33_Witness ==
    \E t \in BuyTasks :
        /\ buy[t].pc = "done"
        /\ buy[t].result = "ok"
        /\ buy[t].item.price = buy[t].item.rarity * BASE_MULTIPLIER - VARIANCE
        /\ balance[buy[t].user] = 1000 - buy[t].item.price

(* C34: propose is stateless: a step of a propose, whether it emits a      *)
(* token or rejects, changes nothing but that task's own locals: no        *)
(* account, no collection, no cooldown entry, no lock, no record of the    *)
(* proposal in any store or module dictionary.  Checked under SpecGift.    *)
C34_ProposeStateless ==
    [][prop' # prop
       => /\ \E t \in ProposeTasks : prop' = [prop EXCEPT ![t] = prop'[t]]
          /\ UNCHANGED <<registered, balance, characters, catalog, locked,
                         gift_cooldowns, claim_cooldowns, daily_claims,
                         shop_cache, redeem_codes, user_redeem_history,
                         buy, rdm, giv, cfm, cnl, scl, gfa, upl, dlc, rfr>>]_vars

\* C34's case: a token has been emitted and not acted upon, and the sender
\* still holds the character and has no cooldown entry
C34_Witness ==
    \E p \in ProposeTasks :
        /\ Token(p)
        /\ \A t \in ConfirmTasks : cfm[t].pc = "idle"
        /\ prop[p].sender \notin DOMAIN gift_cooldowns
        /\ CountId(characters[prop[p].sender], prop[p].char_id) >= 1
        /\ characters[prop[p].recipient] = <<>>

(* C35: whenever a purchase succeeds, the entry its last step removes from *)
(* the chat's listing is the entry whose price was charged and whose       *)
(* snapshot was granted, whatever other purchases, refreshes and           *)
(* regenerations ran while it was suspended.  Checked under SpecListing.   *)
C35_RemovesEntryBought ==
    [][\A t \in BuyTasks :
          (buy[t].pc = "pop" /\ buy'[t].pc = "done" /\ buy'[t].result = "ok")
          => /\ buy[t].chat \in DOMAIN shop_cache
             /\ buy[t].num \in 1..Len(shop_cache[buy[t].chat].items)
             /\ shop_cache[buy[t].chat].items[buy[t].num] = buy[t].item
             /\ shop_cache' = [shop_cache EXCEPT ![buy[t].chat].items =
                                  RemoveAt(@, buy[t].num)]]_vars

\* the decrement of task t's purchase has been applied: BuyInc is the only
\* step into "push", and "pop" follows the append
C36_Charged(t) == buy[t].pc \in {"push", "pop"}
\* the append of task t's purchase has been applied
C36_GrantedBefore(t) == buy[t].pc = "pop"

(* C36: a purchase that ends by reporting anything but success has neither *)
(* charged the buyer nor granted a character: the step that ends it is not *)
(* taken by a task whose decrement or append has been applied, whatever    *)
(* happened to the listing while it was suspended.  Checked under          *)
(* SpecListing.                                                            *)
C36_ErrorMeansNoCharge ==
    [][\A t \in BuyTasks :
          (buy[t].pc # "done" /\ buy'[t].pc = "done" /\ buy'[t].result # "ok")
          => ~C36_Charged(t) /\ ~C36_GrantedBefore(t)]_vars

(* C37: a giftall whose destination is the invoking account itself never   *)
(* loses the collection: when it ends, the invoker holds as many instances *)
(* of every character as when the collection was read.  Checked under      *)
(* SpecBulkSeq.                                                            *)
C37_GiftallSelfKeepsCollection ==
    [][\A t \in GiftallTasks :
          (/\ gfa[t].pc # "done"
           /\ gfa'[t].pc = "done"
           /\ gfa'[t].recipient = gfa'[t].user
           /\ gfa[t].pc # "idle")
          => \A c \in CharIds :
                CountId(characters'[gfa'[t].user], c) = CountId(gfa'[t].d0, c)]_vars

\* task t takes a redeem update in this step
C38_Starts(t) == rdm[t].pc \in {"idle", "done"} /\ rdm'[t] # rdm[t]
\* task t's redemption succeeds in this step
C38_Succeeds(t) == rdm[t].pc = "record" /\ rdm'[t].pc = "done" /\ rdm'[t].result = "ok"
\* u's redeem history with one more time
C38_Armed(u, time) ==
    Put(user_redeem_history, u,
        Append(IF u \in DOMAIN user_redeem_history THEN user_redeem_history[u]
               ELSE <<>>, time))
\* a redeem by a user in the cooldown is rejected with the cooldown notice,
\* whatever the code, and changes no state
C38_CoolingRejected ==
    \A t \in RedeemTasks :
        (C38_Starts(t) /\ C9_Cooling(rdm'[t].user))
        => /\ rdm'[t].pc = "done"
           /\ rdm'[t].result = "Cooldown"
           /\ UNCHANGED <<balance, registered, redeem_codes, user_redeem_history>>

(* C38 as stated: the cooldown runs from the time t at which the           *)
(* redemption succeeds: the step that ends a redemption with success       *)
(* records the time of that step, so that every attempt before t + 60 s is *)
(* rejected; attempts in the cooldown are rejected with no state change    *)
(* and no other step changes the redeem history.  Checked under            *)
(* SpecRedeemFail.                                                         *)
C38_CooldownFromSuccess ==
    [][/\ C38_CoolingRejected
       /\ \A t \in RedeemTasks :
             C38_Succeeds(t) => user_redeem_history' = C38_Armed(rdm[t].user, now)
       /\ user_redeem_history' # user_redeem_history
             => \E t \in RedeemTasks : C38_Succeeds(t)]_vars

(* C38 amended: with one redemption at a time, the cooldown runs from the  *)
(* time at which the successful redeem was received: the step that ends a  *)
(* redemption with success records the time read when that redeem         *)
(* started; a redeem by u less than 60 s after the last recorded time is   *)
(* rejected with the cooldown notice before the code is looked up and      *)
(* changes no state; rejected attempts and store failures leave the redeem *)
(* history unchanged.  Checked under SpecRedeemFail.                       *)
C38_CooldownFromStart ==
    [][/\ C38_CoolingRejected
       /\ \A t \in RedeemTasks :
             C38_Succeeds(t) => user_redeem_history' = C38_Armed(rdm[t].user, rdm[t].t0)
       /\ user_redeem_history' # user_redeem_history
             => \E t \in RedeemTasks : C38_Succeeds(t)]_vars

\* C38's case: a user who redeemed once and was paid once has tried again
\* within the cooldown and been refused
C38_Witness ==
    \E t \in RedeemTasks :
        /\ rdm[t].pc = "done"
        /\ rdm[t].result = "Cooldown"
        /\ rdm[t].user \in DOMAIN user_redeem_history
        /\ Len(user_redeem_history[rdm[t].user]) = 1
        /\ now - user_redeem_history[rdm[t].user][1] < REDEEM_COOLDOWN_SECONDS
        /\ balance[rdm[t].user] = 1000

\* task s has appended a character for its user less than 24 hours ago, and
\* the cooldown it armed, if it has armed it yet, has not been reset
C39_GrantedInWindow(s) ==
    /\ now - scl[s].t0 < CLAIM_COOLDOWN_HOURS * SECONDS_PER_HOUR
    /\ \/ scl[s].pc = "finish"
       \/ /\ scl[s].pc = "done"
          /\ scl[s].result = "ok"
          /\ scl[s].user \in DOMAIN claim_cooldowns
          /\ claim_cooldowns[scl[s].user] = scl[s].t0

(* C39: the special claim is granted at most once per user per 24 hours:   *)
(* no sclaim appends a character to a user's collection while another      *)
(* sclaim of that user has appended one less than 24 hours before and no   *)
(* reset has cleared the cooldown of that claim, however the calls         *)
(* interleave.  Checked under SpecClaim.                                   *)
C39_OneClaimPerWindow ==
    [][\A t \in SclaimTasks :
          (scl[t].pc = "push" /\ scl'[t].pc = "finish")
          => \A s \in SclaimTasks \ {t} :
                ~(scl[s].user = scl[t].user /\ C39_GrantedInWindow(s))]_vars

=============================================================================
